---- MODULE Spec2Model ----
(***************************************************************************)
(* Recipe costing application (confeitaria-app).                           *)
(*                                                                         *)
(* The model covers the recipe validator (validateRecipeData), the         *)
(* creation-path costing engine (calculateRecipeCosts,                     *)
(* calculateRecipePricing, createRecipe), the form's own cost functions    *)
(* (NovaReceita: calculateTotalCost ... calculateSuggestedPrice) and the   *)
(* form submission handler (handleSubmit) with its create and edit paths.  *)
(*                                                                         *)
(* JavaScript numbers are modelled as exact rationals extended with the    *)
(* IEEE special values Infinity, -Infinity and NaN, plus `undefined` for   *)
(* absent optional fields.  Rounding of binary floating point is not       *)
(* modelled; signed zero is not modelled.                                  *)
(***************************************************************************)
EXTENDS Integers, Sequences, FiniteSets, TLC

(***************************************************************************)
(* Bounds of the model.                                                    *)
(***************************************************************************)
MaxIngredients == 2
MaxRecipes == 2

(***************************************************************************)
(* JavaScript numbers.                                                     *)
(***************************************************************************)
RECURSIVE GCD(_, _)
GCD(a, b) == IF b = 0 THEN a ELSE GCD(b, a % b)

Abs(x) == IF x < 0 THEN -x ELSE x

\* A finite number n/d in lowest terms with a positive denominator.
Rat(n, d) ==
  LET s == IF d < 0 THEN -1 ELSE 1
      g == GCD(Abs(n), Abs(d))
  IN  [k |-> "fin", n |-> (s * n) \div g, d |-> (s * d) \div g]

Num(n) == [k |-> "fin", n |-> n, d |-> 1]
NaN == [k |-> "nan", n |-> 0, d |-> 1]
PosInf == [k |-> "inf", n |-> 1, d |-> 1]
NegInf == [k |-> "inf", n |-> -1, d |-> 1]
Undefined == [k |-> "undef", n |-> 0, d |-> 1]

\* ToNumber: undefined converts to NaN in arithmetic and comparisons.
ToNumber(x) == IF x.k = "undef" THEN NaN ELSE x

IsFinite(x) == x.k = "fin"
Sign(x) == IF x.n > 0 THEN 1 ELSE IF x.n < 0 THEN -1 ELSE 0
InfOf(s) == IF s > 0 THEN PosInf ELSE NegInf

\* a + b
Add(x, y) ==
  LET a == ToNumber(x)
      b == ToNumber(y)
  IN  IF a.k = "nan" \/ b.k = "nan" THEN NaN
      ELSE IF a.k = "inf" /\ b.k = "inf" THEN (IF a.n = b.n THEN a ELSE NaN)
      ELSE IF a.k = "inf" THEN a
      ELSE IF b.k = "inf" THEN b
      ELSE Rat(a.n * b.d + b.n * a.d, a.d * b.d)

Neg(x) ==
  LET a == ToNumber(x)
  IN  IF a.k = "nan" THEN NaN ELSE [k |-> a.k, n |-> -a.n, d |-> a.d]

\* a - b
Sub(x, y) == Add(x, Neg(y))

\* a * b
Mul(x, y) ==
  LET a == ToNumber(x)
      b == ToNumber(y)
  IN  IF a.k = "nan" \/ b.k = "nan" THEN NaN
      ELSE IF a.k = "inf" \/ b.k = "inf"
           THEN (IF Sign(a) * Sign(b) = 0 THEN NaN ELSE InfOf(Sign(a) * Sign(b)))
      ELSE Rat(a.n * b.n, a.d * b.d)

\* a / b: a finite non-zero number divided by zero is +-Infinity, 0/0 is NaN.
Div(x, y) ==
  LET a == ToNumber(x)
      b == ToNumber(y)
  IN  IF a.k = "nan" \/ b.k = "nan" THEN NaN
      ELSE IF a.k = "inf" /\ b.k = "inf" THEN NaN
      ELSE IF a.k = "inf" THEN InfOf(IF Sign(b) < 0 THEN -a.n ELSE a.n)
      ELSE IF b.k = "inf" THEN Num(0)
      ELSE IF b.n = 0 THEN (IF a.n = 0 THEN NaN ELSE InfOf(Sign(a)))
      ELSE Rat(a.n * b.d, a.d * b.n)

\* a < b (false whenever NaN is involved)
Lt(x, y) ==
  LET a == ToNumber(x)
      b == ToNumber(y)
  IN  IF a.k = "nan" \/ b.k = "nan" THEN FALSE
      ELSE IF a.k = "inf" /\ b.k = "inf" THEN a.n < b.n
      ELSE IF a.k = "inf" THEN a.n < 0
      ELSE IF b.k = "inf" THEN b.n > 0
      ELSE a.n * b.d < b.n * a.d

Gt(x, y) == Lt(y, x)

\* a <= b and a >= b (false whenever NaN is involved)
Le(x, y) ==
  LET a == ToNumber(x)
      b == ToNumber(y)
  IN  IF a.k = "nan" \/ b.k = "nan" THEN FALSE ELSE ~Lt(b, a)

Ge(x, y) == Le(y, x)

\* Truthiness of a number-or-undefined value: 0, NaN and undefined are falsy.
Truthy(x) == ~(x.k = "undef" \/ x.k = "nan" \/ (x.k = "fin" /\ x.n = 0))

\* a || b
Or(x, y) == IF Truthy(x) THEN x ELSE y

\* Math.max(a, b)
MathMax(x, y) ==
  LET a == ToNumber(x)
      b == ToNumber(y)
  IN  IF a.k = "nan" \/ b.k = "nan" THEN NaN
      ELSE IF Lt(a, b) THEN b ELSE a

\* Math.min(a, b)
MathMin(x, y) ==
  LET a == ToNumber(x)
      b == ToNumber(y)
  IN  IF a.k = "nan" \/ b.k = "nan" THEN NaN
      ELSE IF Lt(b, a) THEN b ELSE a

(***************************************************************************)
(* Strings are sequences of characters; " " is the whitespace character.   *)
(***************************************************************************)
RECURSIVE TrimStart(_)
TrimStart(s) ==
  IF s # <<>> /\ Head(s) = " " THEN TrimStart(Tail(s)) ELSE s

RECURSIVE TrimEnd(_)
TrimEnd(s) ==
  IF s # <<>> /\ s[Len(s)] = " " THEN TrimEnd(SubSeq(s, 1, Len(s) - 1)) ELSE s

\* String.prototype.trim
Trim(s) == TrimEnd(TrimStart(s))

(***************************************************************************)
(* Recipe Validator: validateRecipeData.                                   *)
(*                                                                         *)
(* An error message is a record: rule names the message text, index is     *)
(* the number interpolated in "Ingrediente ${index + 1}: ..." (0 for the   *)
(* messages that carry no number).                                         *)
(***************************************************************************)
Err(rule, index) == [rule |-> rule, index |-> index]

IngredientErrors_zeroBased(ingredient, index) ==
  (IF Trim(ingredient.name) = <<>>
   THEN <<Err("ingredientName", index)>> ELSE <<>>)
  \o (IF ~Truthy(ingredient.quantity) \/ Le(ingredient.quantity, Num(0))
      THEN <<Err("ingredientQuantity", index)>> ELSE <<>>)
  \o (IF ~Truthy(ingredient.costPerUnit) \/ Le(ingredient.costPerUnit, Num(0))
      THEN <<Err("ingredientCost", index)>> ELSE <<>>)

\* The three checks made on one ingredient inside data.ingredients.forEach;
\* index is the 0-based forEach index.
IngredientErrors(ingredient, index) ==
  (IF Trim(ingredient.name) = <<>>
   THEN <<Err("ingredientName", index + 1)>> ELSE <<>>)
  \o (IF ~Truthy(ingredient.quantity) \/ Le(ingredient.quantity, Num(0))
      THEN <<Err("ingredientQuantity", index + 1)>> ELSE <<>>)
  \o (IF ~Truthy(ingredient.costPerUnit) \/ Le(ingredient.costPerUnit, Num(0))
      THEN <<Err("ingredientCost", index + 1)>> ELSE <<>>)

\* data.ingredients.forEach((ingredient, index) => ...), from position `from`.
RECURSIVE ForEachIngredientErrors(_, _)
ForEachIngredientErrors(ingredients, from) ==
  IF from > Len(ingredients) THEN <<>>
  ELSE IngredientErrors(ingredients[from], from - 1)
       \o ForEachIngredientErrors(ingredients, from + 1)

\* if (!data.title?.trim()) errors.push(...)
TitleErrors(data) ==
  IF Trim(data.title) = <<>> THEN <<Err("title", 0)>> ELSE <<>>

\* if (!data.category?.trim()) errors.push(...)
CategoryErrors(data) ==
  IF Trim(data.category) = <<>> THEN <<Err("category", 0)>> ELSE <<>>

\* if (!data.servings || data.servings <= 0) errors.push(...)
ServingsErrors(data) ==
  IF ~Truthy(data.servings) \/ Le(data.servings, Num(0))
  THEN <<Err("servings", 0)>> ELSE <<>>

\* if (!data.ingredients || data.ingredients.length === 0) errors.push(...)
\* (ingredients is always an array here, and an array is truthy)
NoIngredientsErrors(data) ==
  IF Len(data.ingredients) = 0 THEN <<Err("noIngredients", 0)>> ELSE <<>>

\* if (!data.marginPercentage || data.marginPercentage <= 0
\*     || data.marginPercentage >= 100) errors.push(...)
MarginErrors_inclusive100(data) ==
  IF ~Truthy(data.marginPercentage)
     \/ Le(data.marginPercentage, Num(0))
     \/ Gt(data.marginPercentage, Num(100))
  THEN <<Err("margin", 0)>> ELSE <<>>

MarginErrors(data) ==
  IF ~Truthy(data.marginPercentage)
     \/ Le(data.marginPercentage, Num(0))
     \/ Ge(data.marginPercentage, Num(100))
  THEN <<Err("margin", 0)>> ELSE <<>>

\* The errors array when validateRecipeData reaches its return statement.
AllErrors_marginFirst(data) ==
  MarginErrors(data)
  \o TitleErrors(data)
  \o CategoryErrors(data)
  \o ServingsErrors(data)
  \o NoIngredientsErrors(data)
  \o ForEachIngredientErrors(data.ingredients, 1)

AllErrors(data) ==
  TitleErrors(data)
  \o CategoryErrors(data)
  \o ServingsErrors(data)
  \o NoIngredientsErrors(data)
  \o ForEachIngredientErrors(data.ingredients, 1)
  \o MarginErrors(data)

\* return { isValid: errors.length === 0, errors }
ValidationResult_lenient(errs) == [isValid |-> Len(errs) <= 1, errors |-> errs]

ValidationResult(errs) == [isValid |-> Len(errs) = 0, errors |-> errs]

validateRecipeData_shortCircuit(data) ==
  ValidationResult(IF AllErrors(data) = <<>> THEN <<>>
                   ELSE <<Head(AllErrors(data))>>)

validateRecipeData(data) == ValidationResult(AllErrors(data))

(***************************************************************************)
(* Costing engine of the creation path (services/firestore).               *)
(***************************************************************************)
\* recipeData.ingredients.reduce((sum, ing) => sum + ing.quantity * ing.costPerUnit, 0)
RECURSIVE ReduceIngredients(_, _, _)
ReduceIngredients(ingredients, from, sum) ==
  IF from > Len(ingredients) THEN sum
  ELSE ReduceIngredients(ingredients, from + 1,
         Add(sum, Mul(ingredients[from].quantity, ingredients[from].costPerUnit)))

calculateRecipeCosts(recipeData) ==
  LET totalIngredientsCost == ReduceIngredients(recipeData.ingredients, 1, Num(0))
      laborCostPerHour == Or(recipeData.laborCostPerHour, Num(15))
      totalTimeHours == Div(Add(recipeData.prepTime, recipeData.cookTime), Num(60))
      laborCost == Mul(totalTimeHours, laborCostPerHour)
      overheadPercentage == Or(recipeData.overheadPercentage, Num(10))
      overheadCost == Mul(totalIngredientsCost, Div(overheadPercentage, Num(100)))
      totalCost == Add(Add(totalIngredientsCost, laborCost), overheadCost)
      costPerServing == Div(totalCost, recipeData.servings)
  IN  [totalIngredientsCost |-> totalIngredientsCost,
       laborCost |-> laborCost,
       overheadCost |-> overheadCost,
       totalCost |-> totalCost,
       costPerServing |-> costPerServing]

calculateRecipePricing(costs, marginPercentage) ==
  LET suggestedPrice ==
        Mul(costs.costPerServing, Add(Num(1), Div(marginPercentage, Num(100))))
      finalPrice == suggestedPrice
      profit == Sub(finalPrice, costs.costPerServing)
      profitMargin ==
        IF Gt(costs.costPerServing, Num(0))
        THEN Mul(Div(profit, costs.costPerServing), Num(100))
        ELSE Num(0)
  IN  [marginPercentage |-> marginPercentage,
       suggestedPrice |-> suggestedPrice,
       finalPrice |-> finalPrice,
       profit |-> profit,
       profitMargin |-> profitMargin]

\* The document createRecipe hands to addDoc; now is serverTimestamp().
RecipeDocument(recipeData, uid, now) ==
  LET costs == calculateRecipeCosts(recipeData)
      pricing == calculateRecipePricing(costs, recipeData.marginPercentage)
  IN  [userId |-> uid,
       title |-> recipeData.title,
       category |-> recipeData.category,
       servings |-> recipeData.servings,
       ingredients |-> recipeData.ingredients,
       prepTime |-> recipeData.prepTime,
       cookTime |-> recipeData.cookTime,
       totalTime |-> Add(recipeData.prepTime, recipeData.cookTime),
       costs |-> costs,
       pricing |-> pricing,
       createdAt |-> now,
       updatedAt |-> now]

(***************************************************************************)
(* Cost functions of the recipe form (pages/NovaReceita).                  *)
(***************************************************************************)
RECURSIVE ReduceFormIngredients(_, _, _)
ReduceFormIngredients(ingredients, from, sum) ==
  IF from > Len(ingredients) THEN sum
  ELSE ReduceFormIngredients(ingredients, from + 1,
         Add(sum, Mul(Or(ingredients[from].quantity, Num(0)),
                      Or(ingredients[from].costPerUnit, Num(0)))))

calculateIngredientsCost(fd) == ReduceFormIngredients(fd.ingredients, 1, Num(0))

calculateLaborCost(fd) ==
  LET totalTimeHours ==
        Div(Add(Or(fd.prepTime, Num(0)), Or(fd.cookTime, Num(0))), Num(60))
  IN  Mul(totalTimeHours, Or(fd.laborCostPerHour, Num(0)))

calculateOverheadCost(fd) ==
  Mul(calculateIngredientsCost(fd), Div(Or(fd.overheadPercentage, Num(0)), Num(100)))

calculateTotalCost_noOverhead(fd) ==
  Add(calculateIngredientsCost(fd), calculateLaborCost(fd))

calculateTotalCost(fd) ==
  Add(Add(calculateIngredientsCost(fd), calculateLaborCost(fd)),
      calculateOverheadCost(fd))

calculateCostPerServing(fd) ==
  Div(calculateTotalCost(fd), MathMax(Or(fd.servings, Num(1)), Num(1)))

calculateSuggestedPrice(fd) ==
  LET costPerServing == calculateCostPerServing(fd)
      marginDecimal == Div(Or(fd.marginPercentage, Num(0)), Num(100))
  IN  IF Ge(marginDecimal, Num(1)) THEN Num(0)
      ELSE Div(costPerServing, Sub(Num(1), marginDecimal))

\* The fields handleSubmit passes to updateRecipe in edit mode.
RecipeUpdate(fd) ==
  LET ingredientsCost == calculateIngredientsCost(fd)
      laborCost == calculateLaborCost(fd)
      overheadCost == calculateOverheadCost(fd)
      totalCost == calculateTotalCost(fd)
      costPerServing == Div(totalCost, fd.servings)
      suggestedPrice == calculateSuggestedPrice(fd)
      finalPrice == suggestedPrice
      profit == Sub(finalPrice, costPerServing)
      profitMargin ==
        IF Gt(totalCost, Num(0))
        THEN Mul(Div(profit, finalPrice), Num(100))
        ELSE Num(0)
  IN  [title |-> fd.title,
       category |-> fd.category,
       servings |-> fd.servings,
       ingredients |-> fd.ingredients,
       prepTime |-> fd.prepTime,
       cookTime |-> fd.cookTime,
       totalTime |-> Add(fd.prepTime, fd.cookTime),
       costs |-> [totalIngredientsCost |-> ingredientsCost,
                  laborCost |-> laborCost,
                  overheadCost |-> overheadCost,
                  totalCost |-> totalCost,
                  costPerServing |-> costPerServing],
       pricing |-> [marginPercentage |-> fd.marginPercentage,
                    suggestedPrice |-> suggestedPrice,
                    finalPrice |-> finalPrice,
                    profit |-> profit,
                    profitMargin |-> profitMargin]]

UpdateDoc_costsWithoutPricing(document, updates, now) ==
  [f \in DOMAIN document |->
     IF f = "updatedAt" THEN now
     ELSE IF f \in DOMAIN updates \ {"pricing"} THEN updates[f]
     ELSE document[f]]

\* updateDoc(recipeRef, {...updates, updatedAt: serverTimestamp()}): the
\* fields of updates replace those of the stored document.
UpdateDoc(document, updates, now) ==
  [f \in DOMAIN document |->
     IF f = "updatedAt" THEN now
     ELSE IF f \in DOMAIN updates THEN updates[f]
     ELSE document[f]]

(***************************************************************************)
(* State.                                                                  *)
(***************************************************************************)
VARIABLES
  formData,     \* the RecipeFormData held by the caller (the form's state)
  currentUser,  \* auth.currentUser (NoUser when signed out)
  isEditMode,   \* Boolean(searchParams.get('edit'))
  errors,       \* the form's errors state (setErrors)
  validation,   \* <<result>> of the last validateRecipeData call, <<>> before
  recipes,      \* the 'recipes' collection; a document's id is its position
  clock,        \* the next value of serverTimestamp()
  pc            \* "form", "dashboard", "receita": the route shown; "service":
                \* a direct caller of the service functions

\* The trace of the last call of a read, update or delete service function.
VARIABLES
  deleted,      \* the ids of the documents removed by deleteDoc
  lastCall      \* [op, accesses, returned, thrown]: the function called, the
                \* store accesses it performed, the recipes it returned and
                \* whether it threw

storeVars == <<deleted, lastCall>>

\* The loop of importRecipes over the recipes of a backup file.
VARIABLES
  backupLength, \* backupData.recipes.length (0 while no import runs)
  imported,     \* the counter of persisted entries
  skipped,      \* the counter of entries that threw
  lastImport,   \* <<[entry, persisted]>>: the entry of the last iteration
                \* and whether createRecipe persisted it; <<>> before
  importAborted \* an error has left the loop for the outer catch block

importVars == <<backupLength, imported, skipped, lastImport, importAborted>>

\* One call of ErrorHandler.withRetry(operation, maxAttempts, delayMs).
VARIABLES
  retryPc,      \* "idle"; "operation": awaiting operation(); "timer": awaiting
                \* the setTimeout promise; "returned"; "thrown"
  maxAttempts,  \* the argument maxAttempts
  delayMs,      \* the argument delayMs
  attempt,      \* the loop variable
  lastError,    \* <<error>> once assigned, <<>> while undefined
  invoked,      \* how many times operation() has been called
  outcomes,     \* what each finished call of operation() did: [ok, value]
  timer,        \* the pending setTimeout: [delay, elapsed] in ms
  waits,        \* the timers that have fired, in order
  retryToast,   \* the attempt number in the 'retry-toast' toast, 0 if none
  settled       \* <<value>> returned or <<error>> thrown by withRetry

retryVars == <<retryPc, maxAttempts, delayMs, attempt, lastError, invoked, outcomes, timer, waits, retryToast, settled>>

\* The statistics last computed from the recipes of the signed-in user.
VARIABLES
  dashboardStats, \* <<stats>> set by the dashboard from getDashboardStats()
  recipeStats     \* <<stats>> that useRecipeStats gives the analytics page

statsVars == <<dashboardStats, recipeStats>>

\* createRecipe under withFirestoreErrorHandling: what became of the
\* follow-up updateUserStats ("none", "updated" or "failed").
VARIABLES statsUpdate

createVars == <<statsUpdate>>

\* The draft buttons of the recipe form: the drafts collection, the id of
\* the draft the form holds (0 for null), the saves started (each with the
\* call it made and how it settled) and the last toast.
VARIABLES drafts, currentDraftId, draftCalls, draftToast

draftVars == <<drafts, currentDraftId, draftCalls, draftToast>>

\* useHasAdminClaim: its two pieces of state, the user its effect last ran
\* for ("unmounted" before the first run), the getIdTokenResult calls it
\* started, and the number of changes of the signed-in user so far.
VARIABLES hasAdminClaim, isChecking, effectUser, tokenCalls, authChanges

adminVars == <<hasAdminClaim, isChecking, effectUser, tokenCalls, authChanges>>

\* The employees collection and the number of updateEmployee calls made.
VARIABLES employees, employeeUpdates

employeeVars == <<employees, employeeUpdates>>

\* The recipe list page: the ids of the displayed recipes, the confirmation
\* modal, the isDeleting flag, the recipe id of the deleteRecipe call in
\* flight (0 for none) and the last event the page handled.
VARIABLES displayed, confirmModal, isDeleting, deleteCall, lastEvent

listVars == <<displayed, confirmModal, isDeleting, deleteCall, lastEvent>>

\* ErrorHandler: the errorLog array, the array getErrorLog last returned to
\* a caller and whether it is the errorLog array itself, the errors handled
\* since the log was last cleared, and the number of handle calls made.
VARIABLES errorLog, exposedLog, exposedShared, handled, handleCalls

logVars == <<errorLog, exposedLog, exposedShared, handled, handleCalls>>

\* The state the recipe form and createRecipe never touch.
otherVars == <<storeVars, importVars, retryVars, statsVars, createVars, draftVars, adminVars, employeeVars, listVars, logVars>>

\* The state of the recipe form, the signed-in user and the recipes store.
coreVars == <<formData, currentUser, isEditMode, errors, validation, recipes, clock, pc>>

\* What the functions of each part leave alone outside their own state.
storeOthers == <<importVars, retryVars, statsVars, createVars, draftVars, adminVars, employeeVars, listVars, logVars>>
importOthers == <<storeVars, retryVars, statsVars, createVars, draftVars, adminVars, employeeVars, listVars, logVars>>
retryOthers == <<storeVars, importVars, statsVars, createVars, draftVars, adminVars, employeeVars, listVars, logVars>>
statsOthers == <<storeVars, importVars, retryVars, createVars, draftVars, adminVars, employeeVars, listVars, logVars>>
createOthers == <<storeVars, importVars, retryVars, statsVars, draftVars, adminVars, employeeVars, listVars, logVars>>
draftOthers == <<storeVars, importVars, retryVars, statsVars, createVars, adminVars, employeeVars, listVars, logVars>>
adminOthers == <<storeVars, importVars, retryVars, statsVars, createVars, draftVars, employeeVars, listVars, logVars>>
employeeOthers == <<storeVars, importVars, retryVars, statsVars, createVars, draftVars, adminVars, listVars, logVars>>
listOthers == <<storeVars, importVars, retryVars, statsVars, createVars, draftVars, adminVars, employeeVars, logVars>>
logOthers == <<storeVars, importVars, retryVars, statsVars, createVars, draftVars, adminVars, employeeVars, listVars>>

vars == <<coreVars, otherVars>>

Call(op, accesses, returned, thrown) ==
  [op |-> op, accesses |-> accesses, returned |-> returned, thrown |-> thrown]

NoCall == Call("none", {}, <<>>, FALSE)

NoTimer == [delay |-> 0, elapsed |-> 0]

\* No call of withRetry has been made.
RetryIdle ==
  /\ retryPc = "idle"
  /\ maxAttempts = 0
  /\ delayMs = 0
  /\ attempt = 0
  /\ lastError = <<>>
  /\ invoked = 0
  /\ outcomes = <<>>
  /\ timer = NoTimer
  /\ waits = <<>>
  /\ retryToast = 0
  /\ settled = <<>>

StatsIdle ==
  /\ dashboardStats = <<>>
  /\ recipeStats = <<>>

CreateIdle ==
  statsUpdate = "none"

DraftIdle ==
  /\ drafts = <<>>
  /\ currentDraftId = 0
  /\ draftCalls = <<>>
  /\ draftToast = "none"

AdminIdle ==
  /\ hasAdminClaim = FALSE
  /\ isChecking = TRUE
  /\ effectUser = "unmounted"
  /\ tokenCalls = <<>>
  /\ authChanges = 0

EmployeeIdle ==
  /\ employees = <<>>
  /\ employeeUpdates = 0

ListIdle ==
  /\ displayed = <<>>
  /\ confirmModal = [isOpen |-> FALSE, recipeId |-> 0]
  /\ isDeleting = FALSE
  /\ deleteCall = 0
  /\ lastEvent = "none"

LogIdle ==
  /\ errorLog = <<>>
  /\ exposedLog = <<>>
  /\ exposedShared = FALSE
  /\ handled = <<>>
  /\ handleCalls = 0

NoUser == "null"
editId == 1

(***************************************************************************)
(* Input values.  Every form field is freely editable, so each combination *)
(* below is a state the form can be in when a handler runs.                *)
(***************************************************************************)
TitleValues == {<<>>, <<" ">>, <<" ", "B", " ">>}
CategoryValues == {<<>>, <<"b">>}
NameValues == {<<" ">>, <<"O">>}
QuantityValues == {Num(0), Num(3)}
CostPerUnitValues == {Num(0), Rat(3, 4)}
SeqsUpTo(S, n) == UNION {[1..m -> S] : m \in 0..n}

Ingredient(name, quantity, costPerUnit) ==
  [name |-> name, quantity |-> quantity, costPerUnit |-> costPerUnit]

FormData(title, category, servings, ingredients, times, margin, labor, overhead) ==
  [title |-> title, category |-> category, servings |-> servings,
   ingredients |-> ingredients, prepTime |-> times[1], cookTime |-> times[2],
   marginPercentage |-> margin,
   laborCostPerHour |-> labor,
   overheadPercentage |-> overhead]

\* Inputs that exercise the validator; the fields it ignores keep the
\* form's initial values.
ValidatorInputs ==
  {FormData(t, c, s, ings, <<Num(0), Num(0)>>, m, Num(15), Num(10)) :
     t \in TitleValues, c \in CategoryValues,
     s \in {Num(-1), Num(0), Num(1)},
     ings \in SeqsUpTo({Ingredient(n, q, cpu) :
                          n \in NameValues, q \in QuantityValues,
                          cpu \in CostPerUnitValues}, MaxIngredients),
     m \in {Undefined, Num(-5), Num(0), Rat(1, 100), Rat(9999, 100), Num(100)}}

\* Inputs that exercise the costing engine; the text fields are valid.
EngineInputs ==
  {FormData(<<"B">>, <<"b">>, s, ings, t, m, l, o) :
     s \in {Num(0), Num(1), Num(8)},
     ings \in SeqsUpTo({Ingredient(<<"O">>, q, cpu) :
                          q \in {Num(3), Num(200)},
                          cpu \in CostPerUnitValues}, MaxIngredients),
     t \in {<<Num(0), Num(0)>>, <<Num(20), Num(40)>>},
     m \in {Num(0), Num(35), Num(100), Num(150)},
     l \in {Undefined, Num(0), Num(20)},
     o \in {Undefined, Num(0), Num(20)}}

\* The recipe already stored when the form is opened in edit mode.
testRecipeData ==
  FormData(<<"B">>, <<"b">>, Num(8), <<Ingredient(<<"O">>, Num(3), Rat(3, 4))>>,
           <<Num(20), Num(40)>>, Num(35), Num(15), Num(10))

\* The form is opened signed out or signed in, in create or in edit mode;
\* pc = "service" is a direct caller of the exported service functions
\* (importRecipes, the test utilities) holding the data it will pass.
Init ==
  /\ \E mode \in {<<NoUser, FALSE, "form">>, <<"u1", FALSE, "form">>,
                   <<"u1", TRUE, "form">>, <<"u1", FALSE, "service">>} :
       /\ currentUser = mode[1]
       /\ isEditMode = mode[2]
       /\ pc = mode[3]
       /\ \/ formData \in EngineInputs
          \/ /\ mode = <<"u1", FALSE, "form">>
             /\ formData \in ValidatorInputs
  /\ errors = <<>>
  /\ validation = <<>>
  /\ recipes = IF isEditMode THEN <<RecipeDocument(testRecipeData, "u1", 0)>>
               ELSE <<>>
  /\ clock = 1
  /\ deleted = {}
  /\ lastCall = NoCall
  /\ backupLength = 0
  /\ imported = 0
  /\ skipped = 0
  /\ lastImport = <<>>
  /\ importAborted = FALSE
  /\ RetryIdle
  /\ StatsIdle
  /\ CreateIdle
  /\ DraftIdle
  /\ AdminIdle
  /\ EmployeeIdle
  /\ ListIdle
  /\ LogIdle

(***************************************************************************)
(* createRecipe(recipeData): the service call, as made without prior       *)
(* validation by importRecipes and the test utilities.                     *)
(***************************************************************************)
createRecipe(recipeData) ==
  Append(recipes, RecipeDocument(recipeData, currentUser, clock))

CreateRecipe ==
  /\ pc = "service"
  /\ currentUser # NoUser
  /\ Len(recipes) < MaxRecipes
  /\ recipes' = createRecipe(formData)
  /\ clock' = clock + 1
  /\ UNCHANGED <<formData, currentUser, isEditMode, errors, validation, pc>>
  /\ UNCHANGED otherVars

\* updateRecipe(recipeId, updates)
updateRecipe(recipeId, updates) ==
  [recipes EXCEPT ![recipeId] = UpdateDoc(@, updates, clock)]

(***************************************************************************)
(* handleSubmit of the recipe form.                                        *)
(***************************************************************************)
\* if (!currentUser) { setErrors([...]); return; }
HandleSubmitNoUser ==
  /\ pc = "form"
  /\ currentUser = NoUser
  /\ errors' = <<Err("notLoggedIn", 0)>>
  /\ UNCHANGED <<formData, currentUser, isEditMode, validation, recipes, clock, pc>>
  /\ UNCHANGED otherVars

\* if (!validation.isValid) { setErrors(validation.errors); return; }
HandleSubmitInvalid ==
  /\ pc = "form"
  /\ currentUser # NoUser
  /\ LET result == validateRecipeData(formData)
     IN  /\ ~result.isValid
         /\ validation' = <<result>>
         /\ errors' = result.errors
  /\ UNCHANGED <<formData, currentUser, isEditMode, recipes, clock, pc>>
  /\ UNCHANGED otherVars

\* Valid data, edit mode: updateRecipe(editId, recipeUpdate), then navigate.
\* ok = FALSE is a rejected write: the catch block reports it.
HandleSubmitEdit ==
  /\ pc = "form"
  /\ currentUser # NoUser
  /\ isEditMode
  /\ LET result == validateRecipeData(formData)
     IN  /\ result.isValid
         /\ validation' = <<result>>
  /\ \E ok \in BOOLEAN :
       IF ok
       THEN /\ recipes' = updateRecipe(editId, RecipeUpdate(formData))
            /\ clock' = clock + 1
            /\ errors' = <<>>
            /\ pc' = "receita"
       ELSE /\ errors' = <<Err("saveFailed", 0)>>
            /\ UNCHANGED <<recipes, clock, pc>>
  /\ UNCHANGED <<formData, currentUser, isEditMode>>
  /\ UNCHANGED otherVars

\* Valid data, create mode: createRecipe(cleanedFormData), then navigate.
HandleSubmitCreate ==
  /\ pc = "form"
  /\ currentUser # NoUser
  /\ ~isEditMode
  /\ Len(recipes) < MaxRecipes
  /\ LET result == validateRecipeData(formData)
     IN  /\ result.isValid
         /\ validation' = <<result>>
  /\ \E ok \in BOOLEAN :
       IF ok
       THEN /\ recipes' = createRecipe(formData)
            /\ clock' = clock + 1
            /\ errors' = <<>>
            /\ pc' = "dashboard"
       ELSE /\ errors' = <<Err("saveFailed", 0)>>
            /\ UNCHANGED <<recipes, clock, pc>>
  /\ UNCHANGED <<formData, currentUser, isEditMode>>
  /\ UNCHANGED otherVars

Next ==
  \/ CreateRecipe
  \/ HandleSubmitNoUser
  \/ HandleSubmitInvalid
  \/ HandleSubmitEdit
  \/ HandleSubmitCreate

Spec == Init /\ [][Next]_vars

(***************************************************************************)
(* The read, update and delete functions of services/firestore, called     *)
(* with any document id by a caller that is signed out or signed in as one *)
(* of two users, over a store that holds recipes of both.                  *)
(***************************************************************************)
Users == {"u1", "u2"}

MaxUpdates == 2

limitCount == 50

Exists(recipeId) == recipeId \in DOMAIN recipes /\ recipeId \notin deleted

\* { id: doc.id, ...data }
Snapshot(recipeId) == recipes[recipeId] @@ [id |-> recipeId]

\* query(collection(db, 'recipes'), where('userId', '==', uid), limit(n))
QueryByUser(uid, from, n) ==
  LET matching == {i \in from..Len(recipes) : Exists(i) /\ recipes[i].userId = uid}
      Before(i) == Cardinality({j \in matching : j < i})
      count == IF Cardinality(matching) < n THEN Cardinality(matching) ELSE n
  IN  [p \in 1..count |-> Snapshot(CHOOSE i \in matching : Before(i) = p - 1)]

\* recipes.sort((a, b) => b.createdAt.getTime() - a.createdAt.getTime()):
\* a stable sort, so a recipe comes after those created later and after
\* the ones created at the same time that precede it in rs.
SortByCreatedAtDesc(rs) ==
  LET Position(i) ==
        1 + Cardinality({j \in DOMAIN rs :
                           \/ rs[j].createdAt > rs[i].createdAt
                           \/ rs[j].createdAt = rs[i].createdAt /\ j < i})
  IN  [p \in DOMAIN rs |-> rs[CHOOSE i \in DOMAIN rs : Position(i) = p]]

Access(kind, recipeId) == [kind |-> kind, id |-> recipeId]

\* getUserRecipes(): ok = FALSE is a getDocs the store rejects.
GetUserRecipes ==
  /\ pc = "service"
  /\ \E ok \in BOOLEAN :
       lastCall' =
         IF currentUser = NoUser \/ ~ok
         THEN Call("getUserRecipes", {}, <<>>, TRUE)
         ELSE LET found == QueryByUser(currentUser, 1, limitCount)
              IN  Call("getUserRecipes",
                       {Access("getDocs", found[k].id) : k \in DOMAIN found},
                       SortByCreatedAtDesc(found), FALSE)
  /\ UNCHANGED <<formData, currentUser, isEditMode, errors, validation, recipes, clock, pc, deleted>>
  /\ UNCHANGED storeOthers

\* getRecipe(recipeId): null (nothing returned) when the document does not
\* exist, 'Acesso negado a esta receita' when it belongs to another user.
GetRecipe ==
  /\ pc = "service"
  /\ \E recipeId \in 1..(Len(recipes) + 1), ok \in BOOLEAN :
       lastCall' =
         IF currentUser = NoUser \/ ~ok
         THEN Call("getRecipe", {}, <<>>, TRUE)
         ELSE IF ~Exists(recipeId)
         THEN Call("getRecipe", {Access("getDoc", recipeId)}, <<>>, FALSE)
         ELSE IF recipes[recipeId].userId # currentUser
         THEN Call("getRecipe", {Access("getDoc", recipeId)}, <<>>, TRUE)
         ELSE Call("getRecipe", {Access("getDoc", recipeId)},
                   <<Snapshot(recipeId)>>, FALSE)
  /\ UNCHANGED <<formData, currentUser, isEditMode, errors, validation, recipes, clock, pc, deleted>>
  /\ UNCHANGED storeOthers

\* updateRecipe(recipeId, updates) with the fields of the edit submission:
\* updateDoc fails on a missing document; ok = FALSE is a rejected write.
UpdateRecipe ==
  /\ pc = "service"
  /\ clock < MaxRecipes + MaxUpdates
  /\ \E recipeId \in 1..(Len(recipes) + 1), ok \in BOOLEAN :
       IF currentUser # NoUser /\ Exists(recipeId) /\ ok
       THEN /\ recipes' = updateRecipe(recipeId, RecipeUpdate(formData))
            /\ clock' = clock + 1
            /\ lastCall' = Call("updateRecipe", {Access("updateDoc", recipeId)},
                                <<>>, FALSE)
       ELSE /\ lastCall' = Call("updateRecipe", {}, <<>>, TRUE)
            /\ UNCHANGED <<recipes, clock>>
  /\ UNCHANGED <<formData, currentUser, isEditMode, errors, validation, pc, deleted>>
  /\ UNCHANGED storeOthers

\* deleteRecipe(recipeId): deleteDoc of a missing document succeeds and
\* removes nothing; ok = FALSE is a rejected delete.
DeleteRecipe ==
  /\ pc = "service"
  /\ \E recipeId \in 1..(Len(recipes) + 1), ok \in BOOLEAN :
       IF currentUser # NoUser /\ ok
       THEN /\ deleted' = deleted \cup ({recipeId} \cap DOMAIN recipes)
            /\ lastCall' = Call("deleteRecipe", {Access("deleteDoc", recipeId)},
                                <<>>, FALSE)
       ELSE /\ lastCall' = Call("deleteRecipe", {}, <<>>, TRUE)
            /\ UNCHANGED deleted
  /\ UNCHANGED <<formData, currentUser, isEditMode, errors, validation, recipes, clock, pc>>
  /\ UNCHANGED storeOthers

\* Form data a caller passes as the update: valid inputs of the engine.
StoreInputs ==
  {fd \in EngineInputs :
     /\ fd.servings = Num(8) /\ Len(fd.ingredients) = 1
     /\ fd.marginPercentage = Num(35)
     /\ fd.laborCostPerHour = Num(20) /\ fd.overheadPercentage = Num(20)
     /\ validateRecipeData(fd).isValid}

InitStore ==
  /\ currentUser \in {NoUser} \cup Users
  /\ formData \in StoreInputs
  /\ isEditMode = FALSE
  /\ errors = <<>>
  /\ validation = <<>>
  /\ pc = "service"
  /\ \E owners \in [1..MaxRecipes -> Users] :
       recipes = [i \in 1..MaxRecipes |->
                    RecipeDocument(testRecipeData, owners[i], i - 1)]
  /\ clock = MaxRecipes
  /\ deleted = {}
  /\ lastCall = NoCall
  /\ backupLength = 0
  /\ imported = 0
  /\ skipped = 0
  /\ lastImport = <<>>
  /\ importAborted = FALSE
  /\ RetryIdle
  /\ StatsIdle
  /\ CreateIdle
  /\ DraftIdle
  /\ AdminIdle
  /\ EmployeeIdle
  /\ ListIdle
  /\ LogIdle

NextStore ==
  \/ GetUserRecipes
  \/ GetRecipe
  \/ UpdateRecipe
  \/ DeleteRecipe

SpecStore == InitStore /\ [][NextStore]_vars

(***************************************************************************)
(* importRecipes of components/MobileOptimized: one step per entry of the  *)
(* backup file.  The entries are what JSON.parse yields, so every field    *)
(* may hold any value; marginPercentage is recipe.pricing?.marginPercentage.*)
(***************************************************************************)
BackupEntry(title, servings, ingredients, margin) ==
  [title |-> title, category |-> <<"b">>, servings |-> servings,
   ingredients |-> ingredients, prepTime |-> Num(20), cookTime |-> Num(40),
   marginPercentage |-> margin]

BackupEntries ==
  {BackupEntry(t, s, ings, m) :
     t \in {<<>>, <<"B">>},
     s \in {Num(0), Num(8)},
     ings \in {<<>>} \cup {<<Ingredient(<<"O">>, qc[1], qc[2])>> :
                             qc \in {<<Num(3), Rat(3, 4)>>, <<Num(3), Num(0)>>,
                                     <<Num(0), Rat(3, 4)>>, <<Num(3), Num(-1)>>}},
     m \in {Undefined, Num(-5), Num(35), Num(100)}}

\* The three checks of the loop body that throw.
EntryRejected(recipe) ==
  \/ recipe.title = <<>> \/ recipe.category = <<>> \/ ~Truthy(recipe.servings)
  \/ recipe.ingredients = <<>>
  \/ \E i \in DOMAIN recipe.ingredients :
       LET ing == recipe.ingredients[i]
       IN  ing.name = <<>> \/ Le(ing.quantity, Num(0)) \/ Lt(ing.costPerUnit, Num(0))

\* " (Importado)"
ImportedSuffix == <<" ", "(", "I", "m", "p", "o", "r", "t", "a", "d", "o", ")">>

\* "Converter receita para formato de formulário"
ImportFormData(recipe) ==
  FormData(recipe.title \o ImportedSuffix,
           recipe.category,
           MathMax(Num(1), Or(recipe.servings, Num(1))),
           [i \in DOMAIN recipe.ingredients |->
              Ingredient(recipe.ingredients[i].name,
                         MathMax(Rat(1, 10), Or(recipe.ingredients[i].quantity, Rat(1, 10))),
                         MathMax(Num(0), Or(recipe.ingredients[i].costPerUnit, Num(0))))],
           <<MathMax(Num(0), Or(recipe.prepTime, Num(0))), MathMax(Num(0), Or(recipe.cookTime, Num(0)))>>,
           MathMax(Num(0), MathMin(Num(100), Or(recipe.marginPercentage, Num(30)))),
           Num(20),
           Num(10))

ImportResult(entry, persisted) == [entry |-> entry, persisted |-> persisted]

\* A null entry of the recipes array, which JSON.parse accepts.
NullEntry == [null |-> TRUE]

\* One iteration of the loop: the entry throws in the checks, or
\* createRecipe throws (signed out, or ok = FALSE: the write fails), or the
\* converted entry is persisted.  For a null entry the check throws, and
\* then the catch block does, reading recipe.title for its log line: the
\* error leaves the loop for the outer catch block.
ImportRecipe ==
  /\ pc = "service"
  /\ ~importAborted
  /\ imported + skipped < backupLength
  /\ \E recipe \in BackupEntries \cup {NullEntry}, ok \in BOOLEAN :
       IF recipe = NullEntry
       THEN /\ importAborted' = TRUE
            /\ UNCHANGED <<recipes, clock, imported, skipped, lastImport>>
       ELSE IF EntryRejected(recipe) \/ currentUser = NoUser \/ ~ok
       THEN /\ skipped' = skipped + 1
            /\ lastImport' = <<ImportResult(recipe, FALSE)>>
            /\ UNCHANGED <<recipes, clock, imported, importAborted>>
       ELSE /\ recipes' = createRecipe(ImportFormData(recipe))
            /\ clock' = clock + 1
            /\ imported' = imported + 1
            /\ lastImport' = <<ImportResult(recipe, TRUE)>>
            /\ UNCHANGED <<skipped, importAborted>>
  /\ UNCHANGED <<formData, currentUser, isEditMode, errors, validation, pc, backupLength>>
  /\ UNCHANGED importOthers

InitImport ==
  /\ currentUser \in {NoUser, "u1"}
  /\ formData = testRecipeData
  /\ isEditMode = FALSE
  /\ errors = <<>>
  /\ validation = <<>>
  /\ pc = "service"
  /\ recipes = <<>>
  /\ clock = 1
  /\ deleted = {}
  /\ lastCall = NoCall
  /\ backupLength \in 1..MaxRecipes
  /\ imported = 0
  /\ skipped = 0
  /\ lastImport = <<>>
  /\ importAborted = FALSE
  /\ RetryIdle
  /\ StatsIdle
  /\ CreateIdle
  /\ DraftIdle
  /\ AdminIdle
  /\ EmployeeIdle
  /\ ListIdle
  /\ LogIdle

NextImport == ImportRecipe

SpecImport == InitImport /\ [][NextImport]_vars

(***************************************************************************)
(* identifyErrorType and ErrorHandler.withRetry (the error handler         *)
(* service).  An error is a record [code, message] of strings; an absent   *)
(* field is the empty string, as `|| ''` makes it.                          *)
(***************************************************************************)
UpperCaseLetters ==
  <<"A", "B", "C", "D", "E", "F", "G", "H", "I", "J", "K", "L", "M", "N", "O", "P", "Q", "R", "S", "T", "U", "V", "W", "X", "Y", "Z">>

LowerCaseLetters ==
  <<"a", "b", "c", "d", "e", "f", "g", "h", "i", "j", "k", "l", "m", "n", "o", "p", "q", "r", "s", "t", "u", "v", "w", "x", "y", "z">>

\* s.toLowerCase()
ToLowerCase(s) ==
  [i \in DOMAIN s |->
     IF \E j \in DOMAIN UpperCaseLetters : UpperCaseLetters[j] = s[i]
     THEN LowerCaseLetters[CHOOSE j \in DOMAIN UpperCaseLetters :
                             UpperCaseLetters[j] = s[i]]
     ELSE s[i]]

\* s.startsWith(prefix)
StartsWith(s, prefix) ==
  Len(s) >= Len(prefix) /\ SubSeq(s, 1, Len(prefix)) = prefix

\* s.includes(sub)
Includes(s, sub) ==
  \E i \in 1..(Len(s) - Len(sub) + 1) : SubSeq(s, i, i + Len(sub) - 1) = sub

FirestoreCodes ==
  {<<"c", "a", "n", "c", "e", "l", "l", "e", "d">>,
   <<"u", "n", "k", "n", "o", "w", "n">>,
   <<"i", "n", "v", "a", "l", "i", "d", "-", "a", "r", "g", "u", "m", "e", "n", "t">>,
   <<"d", "e", "a", "d", "l", "i", "n", "e", "-", "e", "x", "c", "e", "e", "d", "e", "d">>,
   <<"n", "o", "t", "-", "f", "o", "u", "n", "d">>,
   <<"a", "l", "r", "e", "a", "d", "y", "-", "e", "x", "i", "s", "t", "s">>,
   <<"r", "e", "s", "o", "u", "r", "c", "e", "-", "e", "x", "h", "a", "u", "s", "t", "e", "d">>,
   <<"f", "a", "i", "l", "e", "d", "-", "p", "r", "e", "c", "o", "n", "d", "i", "t", "i", "o", "n">>,
   <<"a", "b", "o", "r", "t", "e", "d">>,
   <<"o", "u", "t", "-", "o", "f", "-", "r", "a", "n", "g", "e">>,
   <<"u", "n", "i", "m", "p", "l", "e", "m", "e", "n", "t", "e", "d">>,
   <<"i", "n", "t", "e", "r", "n", "a", "l">>,
   <<"u", "n", "a", "v", "a", "i", "l", "a", "b", "l", "e">>,
   <<"d", "a", "t", "a", "-", "l", "o", "s", "s">>}

\* The patterns of the five named kinds, each on the lower-cased message
\* and code of the error.
MatchesAuthentication(error) ==
  \/ StartsWith(ToLowerCase(error.code), <<"a", "u", "t", "h", "/">>)
  \/ Includes(ToLowerCase(error.message), <<"a", "u", "t", "h">>)

MatchesPermission(error) ==
  \/ \E word \in {<<"p", "e", "r", "m", "i", "s", "s", "i", "o", "n">>, <<"i", "n", "s", "u", "f", "f", "i", "c", "i", "e", "n", "t">>, <<"u", "n", "a", "u", "t", "h", "e", "n", "t", "i", "c", "a", "t", "e", "d">>} : Includes(ToLowerCase(error.message), word)
  \/ ToLowerCase(error.code) = <<"p", "e", "r", "m", "i", "s", "s", "i", "o", "n", "-", "d", "e", "n", "i", "e", "d">>

MatchesNetwork(error) ==
  \E word \in {<<"n", "e", "t", "w", "o", "r", "k">>, <<"c", "o", "n", "n", "e", "c", "t", "i", "o", "n">>, <<"t", "i", "m", "e", "o", "u", "t">>, <<"o", "f", "f", "l", "i", "n", "e">>} : Includes(ToLowerCase(error.message), word)

MatchesFirestore(error) ==
  \/ Includes(ToLowerCase(error.code), <<"f", "i", "r", "e", "s", "t", "o", "r", "e">>)
  \/ ToLowerCase(error.code) \in FirestoreCodes

MatchesValidation(error) ==
  \E word \in {<<"v", "a", "l", "i", "d", "a", "t", "i", "o", "n">>, <<"i", "n", "v", "a", "l", "i", "d">>, <<"r", "e", "q", "u", "i", "r", "e", "d">>} : Includes(ToLowerCase(error.message), word)

identifyErrorType_networkFirst(error) ==
  IF MatchesNetwork(error) THEN "network"
  ELSE IF MatchesAuthentication(error) THEN "authentication"
  ELSE IF MatchesPermission(error) THEN "permission"
  ELSE IF MatchesFirestore(error) THEN "firestore"
  ELSE IF MatchesValidation(error) THEN "validation"
  ELSE "unknown"

identifyErrorType(error) ==
  LET errorMessage == ToLowerCase(error.message)
      errorCode == ToLowerCase(error.code)
  IN  IF \/ StartsWith(errorCode, <<"a", "u", "t", "h", "/">>)
         \/ Includes(errorMessage, <<"a", "u", "t", "h">>)
      THEN "authentication"
      ELSE IF \/ Includes(errorMessage, <<"p", "e", "r", "m", "i", "s", "s", "i", "o", "n">>)
              \/ Includes(errorMessage, <<"i", "n", "s", "u", "f", "f", "i", "c", "i", "e", "n", "t">>)
              \/ Includes(errorMessage, <<"u", "n", "a", "u", "t", "h", "e", "n", "t", "i", "c", "a", "t", "e", "d">>)
              \/ errorCode = <<"p", "e", "r", "m", "i", "s", "s", "i", "o", "n", "-", "d", "e", "n", "i", "e", "d">>
      THEN "permission"
      ELSE IF \/ Includes(errorMessage, <<"n", "e", "t", "w", "o", "r", "k">>)
              \/ Includes(errorMessage, <<"c", "o", "n", "n", "e", "c", "t", "i", "o", "n">>)
              \/ Includes(errorMessage, <<"t", "i", "m", "e", "o", "u", "t">>)
              \/ Includes(errorMessage, <<"o", "f", "f", "l", "i", "n", "e">>)
      THEN "network"
      ELSE IF \/ Includes(errorCode, <<"f", "i", "r", "e", "s", "t", "o", "r", "e">>)
              \/ errorCode \in FirestoreCodes
      THEN "firestore"
      ELSE IF \/ Includes(errorMessage, <<"v", "a", "l", "i", "d", "a", "t", "i", "o", "n">>)
              \/ Includes(errorMessage, <<"i", "n", "v", "a", "l", "i", "d">>)
              \/ Includes(errorMessage, <<"r", "e", "q", "u", "i", "r", "e", "d">>)
      THEN "validation"
      ELSE "unknown"

Error(code, message) == [code |-> code, message |-> message]

\* The errors an operation may throw: three the classifier calls network
\* (one by a capitalised word, one although its code is a Firestore code),
\* and one of each other class, two of which mention the network too.
ErrorValues ==
  {Error(<<>>, <<"N", "e", "t", "w", "o", "r", "k", " ", "d", "o", "w", "n">>),
   Error(<<>>, <<"t", "i", "m", "e", "o", "u", "t">>),
   Error(<<"u", "n", "a", "v", "a", "i", "l", "a", "b", "l", "e">>, <<"c", "o", "n", "n", "e", "c", "t", "i", "o", "n", " ", "l", "o", "s", "t">>),
   Error(<<"a", "u", "t", "h", "/", "n", "e", "t", "w", "o", "r", "k", "-", "r", "e", "q", "u", "e", "s", "t", "-", "f", "a", "i", "l", "e", "d">>, <<"n", "e", "t", "w", "o", "r", "k">>),
   Error(<<"p", "e", "r", "m", "i", "s", "s", "i", "o", "n", "-", "d", "e", "n", "i", "e", "d">>, <<"o", "f", "f", "l", "i", "n", "e">>),
   Error(<<"u", "n", "a", "v", "a", "i", "l", "a", "b", "l", "e">>, <<>>),
   Error(<<>>, <<"i", "n", "v", "a", "l", "i", "d">>),
   Error(<<>>, <<"e", "r", "r", "o">>)}

\* The values an operation may return.
ReturnValues == {[id |-> "r1"], [id |-> "r2"]}

MaxAttempts == 3

defaultMaxAttempts == 3

defaultDelayMs == 1000

Outcome(ok, value) == [ok |-> ok, value |-> value]

Rethrows_lastAttemptOnly(error, n, max) == n = max

Rethrows_otherClassOnly(error, n, max) == identifyErrorType(error) # "network"

\* if (errorType !== 'network' || attempt === maxAttempts) throw error
Rethrows(error, n, max) == identifyErrorType(error) # "network" \/ n = max

BackoffDelay_constant(ms, n) == ms

\* delayMs * attempt
BackoffDelay(ms, n) == ms * n

\* withRetry(operation, max, ms) is called: attempt = 1 and operation() is
\* invoked.
WithRetry ==
  /\ retryPc = "idle"
  /\ \E max \in 1..MaxAttempts :
       /\ maxAttempts' = max
       /\ delayMs' = defaultDelayMs
  /\ attempt' = 1
  /\ invoked' = invoked + 1
  /\ retryPc' = "operation"
  /\ UNCHANGED <<lastError, outcomes, timer, waits, retryToast, settled>>
  /\ UNCHANGED <<coreVars, retryOthers>>

\* return await operation(): the promise fulfils.
OperationReturns ==
  /\ retryPc = "operation"
  /\ \E value \in ReturnValues :
       /\ outcomes' = Append(outcomes, Outcome(TRUE, value))
       /\ settled' = <<value>>
  /\ retryPc' = "returned"
  /\ UNCHANGED <<maxAttempts, delayMs, attempt, lastError, invoked, timer, waits, retryToast>>
  /\ UNCHANGED <<coreVars, retryOthers>>

\* The promise rejects: the catch block rethrows or starts the timer.
OperationThrows ==
  /\ retryPc = "operation"
  /\ \E error \in ErrorValues :
       /\ outcomes' = Append(outcomes, Outcome(FALSE, error))
       /\ lastError' = <<error>>
       /\ IF Rethrows(error, attempt, maxAttempts)
          THEN /\ settled' = <<error>>
               /\ retryPc' = "thrown"
               /\ UNCHANGED timer
          ELSE /\ timer' = [delay |-> BackoffDelay(delayMs, attempt), elapsed |-> 0]
               /\ retryPc' = "timer"
               /\ UNCHANGED settled
  /\ UNCHANGED <<maxAttempts, delayMs, attempt, invoked, waits, retryToast>>
  /\ UNCHANGED <<coreVars, retryOthers>>

\* Time passes while the timer is pending; a timer may fire late.
Tick ==
  /\ retryPc = "timer"
  /\ timer.elapsed <= timer.delay
  /\ timer' = [timer EXCEPT !.elapsed = @ + delayMs \div 2]
  /\ UNCHANGED <<retryPc, maxAttempts, delayMs, attempt, lastError, invoked, outcomes, waits, retryToast, settled>>
  /\ UNCHANGED <<coreVars, retryOthers>>

\* The setTimeout promise resolves, not before its delay: the toast is
\* shown, attempt++ and, while attempt <= maxAttempts, operation() is
\* invoked again; else throw lastError.
TimerFires ==
  /\ retryPc = "timer"
  /\ timer.elapsed >= timer.delay
  /\ waits' = Append(waits, timer)
  /\ timer' = NoTimer
  /\ retryToast' = attempt + 1
  /\ attempt' = attempt + 1
  /\ IF attempt + 1 <= maxAttempts
     THEN /\ invoked' = invoked + 1
          /\ retryPc' = "operation"
          /\ UNCHANGED settled
     ELSE /\ settled' = lastError
          /\ retryPc' = "thrown"
          /\ UNCHANGED invoked
  /\ UNCHANGED <<maxAttempts, delayMs, lastError, outcomes>>
  /\ UNCHANGED <<coreVars, retryOthers>>

InitRetry ==
  /\ currentUser = "u1"
  /\ formData = testRecipeData
  /\ isEditMode = FALSE
  /\ errors = <<>>
  /\ validation = <<>>
  /\ pc = "service"
  /\ recipes = <<>>
  /\ clock = 1
  /\ deleted = {}
  /\ lastCall = NoCall
  /\ backupLength = 0
  /\ imported = 0
  /\ skipped = 0
  /\ lastImport = <<>>
  /\ importAborted = FALSE
  /\ RetryIdle
  /\ StatsIdle
  /\ CreateIdle
  /\ DraftIdle
  /\ AdminIdle
  /\ EmployeeIdle
  /\ ListIdle
  /\ LogIdle

NextRetry ==
  \/ WithRetry
  \/ OperationReturns
  \/ OperationThrows
  \/ Tick
  \/ TimerFires

SpecRetry == InitRetry /\ [][NextRetry]_vars

\* Every invocation of the operation terminates, time passes and a due
\* timer fires.
FairSpecRetry ==
  /\ SpecRetry
  /\ WF_vars(OperationReturns \/ OperationThrows)
  /\ WF_vars(Tick)
  /\ WF_vars(TimerFires)

(***************************************************************************)
(* getDashboardStats of services/firestore and the useRecipeStats hook,    *)
(* both reducing the list getUserRecipes() returns.                        *)
(***************************************************************************)
\* sum + value over the elements lo..hi, from left to right: the left half
\* first, then the right half from the accumulator the left half gave.  NaN
\* plus anything is NaN.
RECURSIVE FoldSum(_, _, _, _)
FoldSum(values, lo, hi, sum) ==
  IF lo > hi THEN sum
  ELSE IF lo = hi THEN Add(sum, values[lo])
  ELSE LET left == FoldSum(values, lo, (lo + hi) \div 2, sum)
       IN  IF left.k = "nan" THEN left
           ELSE FoldSum(values, (lo + hi) \div 2 + 1, hi, left)

\* values.reduce((sum, value) => sum + value, 0), from position `from` on
ReduceSum(values, from, sum) == FoldSum(values, from, Len(values), sum)

\* The fields the reductions add up, one value per recipe.
TotalCosts(rs) == [i \in DOMAIN rs |-> rs[i].costs.totalCost]
ProfitMargins(rs) == [i \in DOMAIN rs |-> rs[i].pricing.profitMargin]
FinalPrices(rs) == [i \in DOMAIN rs |-> rs[i].pricing.finalPrice]
Profits(rs) == [i \in DOMAIN rs |-> rs[i].pricing.profit]

\* The tests by which a reduce callback replaces its accumulator by the
\* recipe: ">||0" is recipe.pricing.profit > (max?.pricing.profit || 0),
\* ">" and "<" compare with the accumulator's profit itself.
Replaces(test, recipe, acc) ==
  CASE test = ">||0" -> Gt(recipe.pricing.profit, Or(acc.pricing.profit, Num(0)))
    [] test = ">=||0" -> Ge(recipe.pricing.profit, Or(acc.pricing.profit, Num(0)))
    [] test = ">" -> Gt(recipe.pricing.profit, acc.pricing.profit)
    [] test = "<" -> Lt(recipe.pricing.profit, acc.pricing.profit)

\* recipes.reduce((acc, recipe) => test ? recipe : acc) from position
\* `from` on
RECURSIVE FoldChoice(_, _, _, _)
FoldChoice(test, rs, from, acc) ==
  IF from > Len(rs) THEN acc
  ELSE IF Replaces(test, rs[from], acc)
       THEN FoldChoice(test, rs, from + 1, rs[from])
       ELSE FoldChoice(test, rs, from + 1, acc)

ReduceMostProfitable_lastWins(rs, from, max) == FoldChoice(">=||0", rs, from, max)

\* recipes.reduce((max, recipe) =>
\*   recipe.pricing.profit > (max?.pricing.profit || 0) ? recipe : max)
ReduceMostProfitable(rs, from, max) == FoldChoice(">||0", rs, from, max)

\* getDashboardStats(), given what getUserRecipes() returned.
DashboardStats(rs) ==
  IF Len(rs) = 0
  THEN [totalRecipes |-> 0, averageCost |-> Num(0), averageMargin |-> Num(0),
        mostProfitableRecipe |-> <<>>, recentRecipes |-> <<>>]
  ELSE LET totalCost == ReduceSum(TotalCosts(rs), 1, Num(0))
           totalMargin == ReduceSum(ProfitMargins(rs), 1, Num(0))
           mostProfitable == ReduceMostProfitable(rs, 2, rs[1])
           recent == SubSeq(rs, 1, IF Len(rs) < 5 THEN Len(rs) ELSE 5)
       IN  [totalRecipes |-> Len(rs),
            averageCost |-> Div(totalCost, Num(Len(rs))),
            averageMargin |-> Div(totalMargin, Num(Len(rs))),
            mostProfitableRecipe |->
              <<[id |-> mostProfitable.id, title |-> mostProfitable.title,
                 profit |-> mostProfitable.pricing.profit]>>,
            recentRecipes |->
              [i \in DOMAIN recent |->
                 [id |-> recent[i].id, title |-> recent[i].title,
                  createdAt |-> recent[i].createdAt]]]

\* recipes.reduce((max, recipe) =>
\*   recipe.pricing.profit > max.pricing.profit ? recipe : max)
\* recipes.reduce((max, recipe) =>
\*   recipe.pricing.profit > max.pricing.profit ? recipe : max)
ReduceHookMost(rs, from, max) == FoldChoice(">", rs, from, max)

\* recipes.reduce((min, recipe) =>
\*   recipe.pricing.profit < min.pricing.profit ? recipe : min)
ReduceHookLeast(rs, from, min) == FoldChoice("<", rs, from, min)

\* useRecipeStats({ recipes }), without the category distribution and the
\* monthly trends.
useRecipeStats(rs) ==
  IF Len(rs) = 0
  THEN [totalRecipes |-> 0, averageCost |-> Num(0), averageMargin |-> Num(0),
        totalRevenue |-> Num(0), totalProfit |-> Num(0),
        mostProfitable |-> <<>>, leastProfitable |-> <<>>]
  ELSE [totalRecipes |-> Len(rs),
        averageCost |-> Div(ReduceSum(TotalCosts(rs), 1, Num(0)), Num(Len(rs))),
        averageMargin |-> Div(ReduceSum(ProfitMargins(rs), 1, Num(0)), Num(Len(rs))),
        totalRevenue |-> ReduceSum(FinalPrices(rs), 1, Num(0)),
        totalProfit |-> ReduceSum(Profits(rs), 1, Num(0)),
        mostProfitable |-> <<ReduceHookMost(rs, 2, rs[1])>>,
        leastProfitable |-> <<ReduceHookLeast(rs, 2, rs[1])>>]

\* The list getUserRecipes() returns to a signed-in caller.
UserRecipes == SortByCreatedAtDesc(QueryByUser(currentUser, 1, limitCount))

\* The dashboard loads: getDashboardStats() throws when signed out or when
\* the query fails (ok = FALSE), and then no statistics are set.
GetDashboardStats ==
  /\ pc = "service"
  /\ \E ok \in BOOLEAN :
       dashboardStats' = IF currentUser = NoUser \/ ~ok THEN <<>>
                         ELSE <<DashboardStats(UserRecipes)>>
  /\ UNCHANGED <<coreVars, recipeStats, statsOthers>>

\* The analytics page loads the recipes and renders useRecipeStats.
LoadAnalytics ==
  /\ pc = "service"
  /\ \E ok \in BOOLEAN :
       recipeStats' = IF currentUser = NoUser \/ ~ok THEN <<useRecipeStats(<<>>)>>
                      ELSE <<useRecipeStats(UserRecipes)>>
  /\ UNCHANGED <<coreVars, dashboardStats, statsOthers>>

MaxStored == 3

\* Recipe data whose total cost is 10 x k: with no labor time the cost is
\* the ingredient cost plus the default 10 % overhead.
StatsData(k, margin) ==
  FormData(<<"B">>, <<"b">>, Num(1),
           <<Ingredient(<<"O">>, Rat(100 * k, 11), Num(1))>>,
           <<Num(0), Num(0)>>, Num(margin), Undefined, Undefined)

\* createRecipe accepts any margin: profits are positive, zero and negative.
StatsInputs ==
  {StatsData(km[1], km[2]) :
     km \in {<<1, 35>>, <<2, 35>>, <<3, 35>>, <<1, 0>>, <<1, -5>>, <<2, -5>>}}

StoredRecipes ==
  {<<d, "u1">> : d \in StatsInputs} \cup {<<StatsData(1, 35), "u2">>}

\* The store holds up to MaxStored recipes of the two users, or one more
\* recipe of one user than a query returns.
InitStats ==
  /\ currentUser \in {NoUser} \cup Users
  /\ formData = testRecipeData
  /\ isEditMode = FALSE
  /\ errors = <<>>
  /\ validation = <<>>
  /\ pc = "service"
  /\ \/ \E stored \in SeqsUpTo(StoredRecipes, MaxStored) :
          recipes = [i \in DOMAIN stored |->
                       RecipeDocument(stored[i][1], stored[i][2], i - 1)]
     \/ recipes = [i \in 1..(limitCount + 1) |->
                     RecipeDocument(StatsData(1, 35), "u1", i - 1)]
  /\ clock = Len(recipes)
  /\ deleted = {}
  /\ lastCall = NoCall
  /\ backupLength = 0
  /\ imported = 0
  /\ skipped = 0
  /\ lastImport = <<>>
  /\ importAborted = FALSE
  /\ RetryIdle
  /\ StatsIdle
  /\ CreateIdle
  /\ DraftIdle
  /\ AdminIdle
  /\ EmployeeIdle
  /\ ListIdle
  /\ LogIdle

NextStats ==
  \/ GetDashboardStats
  \/ LoadAnalytics

SpecStats == InitStats /\ [][NextStats]_vars

(***************************************************************************)
(* createRecipe as withFirestoreErrorHandling runs it: the operation is    *)
(* the authentication test, addDoc, the awaited updateUserStats and the    *)
(* return of the new id, under withRetry with its default arguments.  A    *)
(* rejected addDoc has written nothing.                                    *)
(***************************************************************************)
\* new Error('Usuário não autenticado')
NotAuthenticatedError == Error(<<>>, <<"U", "s", "u", "á", "r", "i", "o", " ", "n", "ã", "o", " ", "a", "u", "t", "e", "n", "t", "i", "c", "a", "d", "o">>)

\* catch (error) of withRetry: rethrow, or wait for delayMs * attempt.
CatchInWithRetry(error) ==
  /\ outcomes' = Append(outcomes, Outcome(FALSE, error))
  /\ lastError' = <<error>>
  /\ IF Rethrows(error, attempt, maxAttempts)
     THEN /\ settled' = <<error>>
          /\ retryPc' = "thrown"
          /\ UNCHANGED timer
     ELSE /\ timer' = [delay |-> BackoffDelay(delayMs, attempt), elapsed |-> 0]
          /\ retryPc' = "timer"
          /\ UNCHANGED settled

AwaitUpdateUserStats_propagates(ok, error) ==
  IF ok THEN Outcome(TRUE, <<>>) ELSE Outcome(FALSE, error)

\* await updateUserStats(): its catch block logs the error and returns.
AwaitUpdateUserStats(ok, error) == Outcome(TRUE, <<>>)

\* createRecipe(recipeData) is called: withRetry(operation) starts the
\* first attempt.
CallCreateRecipe ==
  /\ retryPc = "idle"
  /\ maxAttempts' = defaultMaxAttempts
  /\ delayMs' = defaultDelayMs
  /\ attempt' = 1
  /\ invoked' = invoked + 1
  /\ retryPc' = "operation"
  /\ UNCHANGED <<lastError, outcomes, timer, waits, retryToast, settled>>
  /\ UNCHANGED <<coreVars, retryOthers>>

\* if (!auth.currentUser) throw new Error('Usuário não autenticado')
ThrowNotAuthenticated ==
  /\ retryPc = "operation"
  /\ currentUser = NoUser
  /\ CatchInWithRetry(NotAuthenticatedError)
  /\ UNCHANGED <<maxAttempts, delayMs, attempt, invoked, waits, retryToast>>
  /\ UNCHANGED <<coreVars, retryOthers>>

\* await addDoc(...) rejects: no document was written.
AddDocRejects ==
  /\ retryPc = "operation"
  /\ currentUser # NoUser
  /\ \E error \in ErrorValues : CatchInWithRetry(error)
  /\ UNCHANGED <<maxAttempts, delayMs, attempt, invoked, waits, retryToast>>
  /\ UNCHANGED <<coreVars, retryOthers>>

\* await addDoc(...) resolves: the document is in the collection.
AddDocResolves ==
  /\ retryPc = "operation"
  /\ currentUser # NoUser
  /\ recipes' = createRecipe(formData)
  /\ clock' = clock + 1
  /\ retryPc' = "stats"
  /\ UNCHANGED <<formData, currentUser, isEditMode, errors, validation, pc>>
  /\ UNCHANGED <<maxAttempts, delayMs, attempt, lastError, invoked, outcomes, timer, waits, retryToast, settled>>
  /\ UNCHANGED retryOthers

\* await updateUserStats() settles, then return docRef.id.
UpdateUserStats ==
  /\ retryPc = "stats"
  /\ \E ok \in BOOLEAN, error \in ErrorValues :
       /\ statsUpdate' = IF ok THEN "updated" ELSE "failed"
       /\ IF AwaitUpdateUserStats(ok, error).ok
          THEN /\ outcomes' = Append(outcomes, Outcome(TRUE, [id |-> Len(recipes)]))
               /\ settled' = <<[id |-> Len(recipes)]>>
               /\ retryPc' = "returned"
               /\ UNCHANGED <<lastError, timer>>
          ELSE CatchInWithRetry(AwaitUpdateUserStats(ok, error).value)
  /\ UNCHANGED <<maxAttempts, delayMs, attempt, invoked, waits, retryToast>>
  /\ UNCHANGED <<coreVars, storeVars, importVars, statsVars, draftVars, adminVars, employeeVars, listVars, logVars>>

InitCreate ==
  /\ currentUser \in {NoUser, "u1"}
  /\ formData = testRecipeData
  /\ isEditMode = FALSE
  /\ errors = <<>>
  /\ validation = <<>>
  /\ pc = "service"
  /\ recipes = <<>>
  /\ clock = 1
  /\ deleted = {}
  /\ lastCall = NoCall
  /\ backupLength = 0
  /\ imported = 0
  /\ skipped = 0
  /\ lastImport = <<>>
  /\ importAborted = FALSE
  /\ RetryIdle
  /\ StatsIdle
  /\ CreateIdle
  /\ DraftIdle
  /\ AdminIdle
  /\ EmployeeIdle
  /\ ListIdle
  /\ LogIdle

NextCreate ==
  \/ CallCreateRecipe
  \/ ThrowNotAuthenticated
  \/ AddDocRejects
  \/ AddDocResolves
  \/ UpdateUserStats
  \/ Tick
  \/ TimerFires

SpecCreate == InitCreate /\ [][NextCreate]_vars

(***************************************************************************)
(* The "save draft" button of the recipe form: handleSaveDraft, saveDraft  *)
(* and updateDraft.  The button is disabled by isLoading only, which       *)
(* handleSaveDraft never sets, so it can be pressed while a save is in     *)
(* flight.                                                                 *)
(***************************************************************************)
MaxSaves == 3

DraftCall(kind, draftId, data) ==
  [kind |-> kind, draftId |-> draftId, data |-> data, status |-> "pending"]

\* The signed-out branch of handleSaveDraft.
HandleSaveDraftNoUser ==
  /\ currentUser = NoUser
  /\ draftToast # "login"
  /\ draftToast' = "login"
  /\ UNCHANGED <<drafts, currentDraftId, draftCalls>>
  /\ UNCHANGED <<coreVars, draftOthers>>

\* handleSaveDraft up to its await: updateDraft(currentDraftId, formData)
\* when the form holds a draft id, saveDraft(formData) otherwise.
HandleSaveDraft ==
  /\ currentUser # NoUser
  /\ Len(draftCalls) < MaxSaves
  /\ draftCalls' = Append(draftCalls,
                          IF currentDraftId # 0
                          THEN DraftCall("updateDraft", currentDraftId, formData)
                          ELSE DraftCall("saveDraft", 0, formData))
  /\ draftToast' = "loading"
  /\ UNCHANGED <<drafts, currentDraftId>>
  /\ UNCHANGED <<coreVars, draftOthers>>

\* saveDraft resolves: addDoc has created the draft, and the rest of
\* handleSaveDraft records its id.
SaveDraftResolves ==
  \E i \in DOMAIN draftCalls :
    /\ draftCalls[i].kind = "saveDraft"
    /\ draftCalls[i].status = "pending"
    /\ drafts' = Append(drafts, [userId |-> currentUser, data |-> draftCalls[i].data,
                                 isDraft |-> TRUE, updates |-> 0])
    /\ currentDraftId' = Len(drafts) + 1
    /\ draftCalls' = [draftCalls EXCEPT ![i].status = "done", ![i].draftId = Len(drafts) + 1]
    /\ draftToast' = "success"
    /\ UNCHANGED <<coreVars, draftOthers>>

\* updateDraft resolves: updateDoc has rewritten the draft.
UpdateDraftResolves ==
  \E i \in DOMAIN draftCalls :
    /\ draftCalls[i].kind = "updateDraft"
    /\ draftCalls[i].status = "pending"
    /\ drafts' = [drafts EXCEPT ![draftCalls[i].draftId].data = draftCalls[i].data,
                                ![draftCalls[i].draftId].updates = @ + 1]
    /\ draftCalls' = [draftCalls EXCEPT ![i].status = "done"]
    /\ draftToast' = "success"
    /\ UNCHANGED currentDraftId
    /\ UNCHANGED <<coreVars, draftOthers>>

\* saveDraft or updateDraft rejects: nothing was written and the catch
\* block reports the error.
DraftCallRejects ==
  \E i \in DOMAIN draftCalls :
    /\ draftCalls[i].status = "pending"
    /\ draftCalls' = [draftCalls EXCEPT ![i].status = "failed"]
    /\ draftToast' = "error"
    /\ UNCHANGED <<drafts, currentDraftId>>
    /\ UNCHANGED <<coreVars, draftOthers>>

InitDraft ==
  /\ currentUser \in {NoUser, "u1"}
  /\ formData = testRecipeData
  /\ isEditMode = FALSE
  /\ errors = <<>>
  /\ validation = <<>>
  /\ pc = "form"
  /\ recipes = <<>>
  /\ clock = 1
  /\ deleted = {}
  /\ lastCall = NoCall
  /\ backupLength = 0
  /\ imported = 0
  /\ skipped = 0
  /\ lastImport = <<>>
  /\ importAborted = FALSE
  /\ RetryIdle
  /\ StatsIdle
  /\ CreateIdle
  /\ DraftIdle
  /\ AdminIdle
  /\ EmployeeIdle
  /\ ListIdle
  /\ LogIdle

NextDraft ==
  \/ HandleSaveDraftNoUser
  \/ HandleSaveDraft
  \/ SaveDraftResolves
  \/ UpdateDraftResolves
  \/ DraftCallRejects

SpecDraft == InitDraft /\ [][NextDraft]_vars

(***************************************************************************)
(* useHasAdminClaim: an effect on currentUser that starts                  *)
(* getIdTokenResult(true) and stores the claim when it settles.  The       *)
(* effect has no cleanup and never sets isChecking back to true.           *)
(***************************************************************************)
MaxAuthChanges == 3

\* The users whose token carries the claim admin === true.
AdminUsers == {"u1"}

\* return hasAdminClaim && !isChecking
useHasAdminClaim == hasAdminClaim /\ ~isChecking

\* onAuthStateChanged: another user signs in, or the user signs out, and
\* the component renders again.
AuthStateChanged ==
  /\ effectUser = currentUser
  /\ authChanges < MaxAuthChanges
  /\ \E user \in ({NoUser} \cup Users) \ {currentUser} : currentUser' = user
  /\ authChanges' = authChanges + 1
  /\ UNCHANGED <<hasAdminClaim, isChecking, effectUser, tokenCalls>>
  /\ UNCHANGED <<formData, isEditMode, errors, validation, recipes, clock, pc>>
  /\ UNCHANGED adminOthers

\* The effect runs for the rendered currentUser (on mount and after each
\* change) with no user: checkAdminClaim clears both flags.
RunEffectNoUser ==
  /\ effectUser # currentUser
  /\ currentUser = NoUser
  /\ hasAdminClaim' = FALSE
  /\ isChecking' = FALSE
  /\ effectUser' = currentUser
  /\ UNCHANGED <<tokenCalls, authChanges>>
  /\ UNCHANGED <<coreVars, adminOthers>>

\* The effect runs for a signed-in user: checkAdminClaim starts
\* currentUser.getIdTokenResult(true) and awaits it.
RunEffect ==
  /\ effectUser # currentUser
  /\ currentUser # NoUser
  /\ tokenCalls' = Append(tokenCalls, [user |-> currentUser, status |-> "pending"])
  /\ effectUser' = currentUser
  /\ UNCHANGED <<hasAdminClaim, isChecking, authChanges>>
  /\ UNCHANGED <<coreVars, adminOthers>>

\* A getIdTokenResult call resolves: the claim of the user it was started
\* for is stored, and isChecking cleared.
TokenResolves ==
  \E i \in DOMAIN tokenCalls :
    /\ tokenCalls[i].status = "pending"
    /\ hasAdminClaim' = (tokenCalls[i].user \in AdminUsers)
    /\ isChecking' = FALSE
    /\ tokenCalls' = [tokenCalls EXCEPT ![i].status = "resolved"]
    /\ UNCHANGED <<effectUser, authChanges>>
    /\ UNCHANGED <<coreVars, adminOthers>>

\* A getIdTokenResult call rejects: the catch block stores false.
TokenRejects ==
  \E i \in DOMAIN tokenCalls :
    /\ tokenCalls[i].status = "pending"
    /\ hasAdminClaim' = FALSE
    /\ isChecking' = FALSE
    /\ tokenCalls' = [tokenCalls EXCEPT ![i].status = "rejected"]
    /\ UNCHANGED <<effectUser, authChanges>>
    /\ UNCHANGED <<coreVars, adminOthers>>

InitAdmin ==
  /\ currentUser \in {NoUser} \cup Users
  /\ formData = testRecipeData
  /\ isEditMode = FALSE
  /\ errors = <<>>
  /\ validation = <<>>
  /\ pc = "form"
  /\ recipes = <<>>
  /\ clock = 1
  /\ deleted = {}
  /\ lastCall = NoCall
  /\ backupLength = 0
  /\ imported = 0
  /\ skipped = 0
  /\ lastImport = <<>>
  /\ importAborted = FALSE
  /\ RetryIdle
  /\ StatsIdle
  /\ CreateIdle
  /\ DraftIdle
  /\ AdminIdle
  /\ EmployeeIdle
  /\ ListIdle
  /\ LogIdle

NextAdmin ==
  \/ AuthStateChanged
  \/ RunEffectNoUser
  \/ RunEffect
  \/ TokenResolves
  \/ TokenRejects

SpecAdmin == InitAdmin /\ [][NextAdmin]_vars

(***************************************************************************)
(* Employees (the Firestore service): calculateEmployeeHourlyRate,         *)
(* createEmployee and updateEmployee.  An update is a partial form: a      *)
(* function on the fields it carries.                                      *)
(***************************************************************************)
MaxEmployees == 2

MaxEmployeeUpdates == 2

\* Number(x.toFixed(2)): the multiple of 0.01 nearest to x, the larger one
\* of two equally near.
ToFixed2(x) ==
  IF IsFinite(x) THEN Rat((200 * x.n + x.d) \div (2 * x.d), 100) ELSE x

calculateEmployeeHourlyRate(monthlySalary, monthlyHours) ==
  IF ~Truthy(monthlySalary) \/ ~Truthy(monthlyHours) \/ Le(monthlyHours, Num(0))
  THEN Num(0)
  ELSE ToFixed2(Div(monthlySalary, monthlyHours))

\* updates.field, undefined for a field the partial form does not carry.
Field(updates, field) ==
  IF field \in DOMAIN updates THEN updates[field] ELSE Undefined

\* The document updateDoc leaves: the fields of updates over the stored
\* ones, and hourlyRate only when computedHourlyRate is defined.
EmployeeUpdate(stored, updates) ==
  LET monthlySalary == Field(updates, "monthlySalary")
      monthlyHours == Field(updates, "monthlyHours")
      computed == Truthy(monthlySalary) /\ Truthy(monthlyHours)
  IN  [f \in DOMAIN stored |->
         IF f = "hourlyRate" /\ computed
         THEN calculateEmployeeHourlyRate(monthlySalary, monthlyHours)
         ELSE IF f \in DOMAIN updates THEN updates[f] ELSE stored[f]]

MonthlySalaries == {Num(0), Num(1000), Num(3000)}

MonthlyHours == {Num(0), Num(150), Num(160)}

\* The partial forms: every choice of the two fields, each carried or not.
EmployeeUpdates ==
  UNION {[fields -> MonthlySalaries \cup MonthlyHours] :
           fields \in SUBSET {"monthlySalary", "monthlyHours"}}

\* createEmployee(data): addDoc with the computed hourlyRate, when signed
\* in and the write is accepted.
CreateEmployee ==
  /\ Len(employees) < MaxEmployees
  /\ \E monthlySalary \in MonthlySalaries, monthlyHours \in MonthlyHours, ok \in BOOLEAN :
       employees' =
         IF currentUser # NoUser /\ ok
         THEN Append(employees,
                     [userId |-> currentUser,
                      monthlySalary |-> monthlySalary,
                      monthlyHours |-> monthlyHours,
                      hourlyRate |-> calculateEmployeeHourlyRate(monthlySalary, monthlyHours)])
         ELSE employees
  /\ UNCHANGED employeeUpdates
  /\ UNCHANGED <<coreVars, employeeOthers>>

\* updateEmployee(employeeId, updates): updateDoc, when signed in and the
\* write is accepted.
UpdateEmployee ==
  /\ employeeUpdates < MaxEmployeeUpdates
  /\ \E employeeId \in DOMAIN employees, updates \in EmployeeUpdates, ok \in BOOLEAN :
       employees' =
         IF currentUser # NoUser /\ ok
         THEN [employees EXCEPT ![employeeId] = EmployeeUpdate(@, updates)]
         ELSE employees
  /\ employeeUpdates' = employeeUpdates + 1
  /\ UNCHANGED <<coreVars, employeeOthers>>

InitEmployee ==
  /\ currentUser \in {NoUser, "u1"}
  /\ formData = testRecipeData
  /\ isEditMode = FALSE
  /\ errors = <<>>
  /\ validation = <<>>
  /\ pc = "service"
  /\ recipes = <<>>
  /\ clock = 1
  /\ deleted = {}
  /\ lastCall = NoCall
  /\ backupLength = 0
  /\ imported = 0
  /\ skipped = 0
  /\ lastImport = <<>>
  /\ importAborted = FALSE
  /\ RetryIdle
  /\ StatsIdle
  /\ CreateIdle
  /\ DraftIdle
  /\ AdminIdle
  /\ EmployeeIdle
  /\ ListIdle
  /\ LogIdle

NextEmployee ==
  \/ CreateEmployee
  \/ UpdateEmployee

SpecEmployee == InitEmployee /\ [][NextEmployee]_vars

(***************************************************************************)
(* The recipe list page: loadRecipes, handleDeleteRecipe,                  *)
(* confirmDeleteRecipe and cancelDeleteRecipe.  The confirmation modal     *)
(* covers the list while it is open and disables its confirm button while  *)
(* isDeleting.                                                             *)
(***************************************************************************)
MaxListed == 4

ClosedModal == [isOpen |-> FALSE, recipeId |-> 0]

CancelClosesModal_always(deleting) == TRUE

\* if (!isDeleting) setConfirmModal({ isOpen: false, ... })
CancelClosesModal(deleting) == ~deleting

\* prev.filter((r) => r.id !== recipeId)
WithoutRecipe(list, recipeId) == SelectSeq(list, LAMBDA id : id # recipeId)

\* loadRecipes, on mount: the user's recipes are displayed, or the error.
LoadRecipes ==
  /\ lastEvent = "none"
  /\ \E ok \in BOOLEAN :
       IF currentUser = NoUser
       THEN /\ lastEvent' = "login"
            /\ UNCHANGED displayed
       ELSE IF ok
       THEN /\ displayed' = [k \in DOMAIN UserRecipes |-> UserRecipes[k].id]
            /\ lastEvent' = "loaded"
       ELSE /\ lastEvent' = "loadFailed"
            /\ UNCHANGED displayed
  /\ UNCHANGED <<confirmModal, isDeleting, deleteCall>>
  /\ UNCHANGED <<coreVars, listOthers>>

\* handleDeleteRecipe(recipeId, recipeName): the delete button of a
\* displayed recipe opens the modal on it.
HandleDeleteRecipe ==
  /\ ~confirmModal.isOpen
  /\ \E k \in DOMAIN displayed :
       confirmModal' = [isOpen |-> TRUE, recipeId |-> displayed[k]]
  /\ lastEvent' = "open"
  /\ UNCHANGED <<displayed, isDeleting, deleteCall>>
  /\ UNCHANGED <<coreVars, listOthers>>

\* confirmDeleteRecipe up to its await: isDeleting is set and
\* deleteRecipe(confirmModal.recipeId) started.
ConfirmDeleteRecipe ==
  /\ confirmModal.isOpen
  /\ ~isDeleting
  /\ confirmModal.recipeId # 0
  /\ isDeleting' = TRUE
  /\ deleteCall' = confirmModal.recipeId
  /\ lastEvent' = "confirm"
  /\ UNCHANGED <<displayed, confirmModal>>
  /\ UNCHANGED <<coreVars, listOthers>>

\* deleteRecipe resolves: the recipe is filtered out of the list, the modal
\* closed, and finally isDeleting cleared.
DeleteRecipeResolves ==
  /\ deleteCall # 0
  /\ deleted' = deleted \cup {deleteCall}
  /\ displayed' = WithoutRecipe(displayed, deleteCall)
  /\ confirmModal' = ClosedModal
  /\ isDeleting' = FALSE
  /\ deleteCall' = 0
  /\ lastEvent' = "deleted"
  /\ UNCHANGED <<coreVars, lastCall, importVars, retryVars, statsVars, createVars, draftVars, adminVars, employeeVars, logVars>>

\* deleteRecipe rejects: the catch block reports the error, and finally
\* isDeleting is cleared.
DeleteRecipeRejects ==
  /\ deleteCall # 0
  /\ isDeleting' = FALSE
  /\ deleteCall' = 0
  /\ lastEvent' = "failed"
  /\ UNCHANGED <<displayed, confirmModal>>
  /\ UNCHANGED <<coreVars, listOthers>>

\* cancelDeleteRecipe: the modal is asked to close.
CancelDeleteRecipe ==
  /\ confirmModal.isOpen
  /\ lastEvent # "cancel"
  /\ confirmModal' = IF CancelClosesModal(isDeleting) THEN ClosedModal ELSE confirmModal
  /\ lastEvent' = "cancel"
  /\ UNCHANGED <<displayed, isDeleting, deleteCall>>
  /\ UNCHANGED <<coreVars, listOthers>>

InitList ==
  /\ currentUser \in {NoUser, "u1"}
  /\ formData = testRecipeData
  /\ isEditMode = FALSE
  /\ errors = <<>>
  /\ validation = <<>>
  /\ pc = "service"
  /\ \E n \in 1..MaxListed :
       recipes = [i \in 1..n |-> RecipeDocument(StatsData(1, 35), "u1", i - 1)]
  /\ clock = Len(recipes)
  /\ deleted = {}
  /\ lastCall = NoCall
  /\ backupLength = 0
  /\ imported = 0
  /\ skipped = 0
  /\ lastImport = <<>>
  /\ importAborted = FALSE
  /\ RetryIdle
  /\ StatsIdle
  /\ CreateIdle
  /\ DraftIdle
  /\ AdminIdle
  /\ EmployeeIdle
  /\ ListIdle
  /\ LogIdle

NextList ==
  \/ LoadRecipes
  \/ HandleDeleteRecipe
  \/ ConfirmDeleteRecipe
  \/ DeleteRecipeResolves
  \/ DeleteRecipeRejects
  \/ CancelDeleteRecipe

SpecList == InitList /\ [][NextList]_vars

(***************************************************************************)
(* ErrorHandler.handle, getErrorLog and clearErrorLog.  An array is a      *)
(* value plus its identity: exposedShared says that the array a caller     *)
(* holds is the errorLog array itself, so that a change of one is a change *)
(* of the other until errorLog is reassigned.                              *)
(***************************************************************************)
MaxHandled == 3

\* "Manter apenas os últimos 50 erros"
logLimit == 50

\* createAppError(error), with the arrival number for its timestamp.
AppError(error, timestamp) ==
  [type |-> identifyErrorType(error), originalError |-> error, timestamp |-> timestamp]

\* log.slice(-n)
SliceLast(log, n) ==
  IF Len(log) > n THEN SubSeq(log, Len(log) - n + 1, Len(log)) ELSE log

KeepLast_oldest(log) ==
  IF Len(log) > logLimit THEN SubSeq(log, 1, logLimit) ELSE log

\* if (this.errorLog.length > 50) this.errorLog = this.errorLog.slice(-50)
KeepLast(log) ==
  IF Len(log) > logLimit THEN SliceLast(log, logLimit) ELSE log

getErrorLog_internalArray(log) == [array |-> log, shared |-> TRUE]

\* return [...this.errorLog]: a new array with the same entries.
getErrorLog(log) == [array |-> log, shared |-> FALSE]

\* handle(error): push onto errorLog, then keep the last 50 in a new array.
Handle ==
  /\ handleCalls < MaxHandled
  /\ \E error \in {Error(<<>>, <<"t", "i", "m", "e", "o", "u", "t">>),
                   Error(<<>>, <<"e", "r", "r", "o">>)} :
       LET appError == AppError(error, Len(handled) + 1)
           pushed == Append(errorLog, appError)
       IN  /\ errorLog' = KeepLast(pushed)
           /\ handled' = Append(handled, appError)
           /\ exposedLog' = IF exposedShared THEN pushed ELSE exposedLog
           /\ exposedShared' = (exposedShared /\ Len(pushed) <= logLimit)
  /\ handleCalls' = handleCalls + 1
  /\ UNCHANGED <<coreVars, logOthers>>

\* A caller calls getErrorLog() and keeps the array.
GetErrorLog ==
  /\ exposedLog' = getErrorLog(errorLog).array
  /\ exposedShared' = getErrorLog(errorLog).shared
  /\ exposedLog' # exposedLog
  /\ UNCHANGED <<errorLog, handled, handleCalls>>
  /\ UNCHANGED <<coreVars, logOthers>>

\* The caller removes the last entry of the array it holds (pop()).
CallerMutates ==
  /\ exposedLog # <<>>
  /\ exposedLog' = SubSeq(exposedLog, 1, Len(exposedLog) - 1)
  /\ errorLog' = IF exposedShared THEN exposedLog' ELSE errorLog
  /\ UNCHANGED <<exposedShared, handled, handleCalls>>
  /\ UNCHANGED <<coreVars, logOthers>>

\* clearErrorLog(): errorLog is a new empty array.
ClearErrorLog ==
  /\ errorLog # <<>>
  /\ errorLog' = <<>>
  /\ handled' = <<>>
  /\ exposedShared' = FALSE
  /\ UNCHANGED <<exposedLog, handleCalls>>
  /\ UNCHANGED <<coreVars, logOthers>>

\* The handler starts with an empty log, or has handled 49 errors already.
InitLog ==
  /\ currentUser = "u1"
  /\ formData = testRecipeData
  /\ isEditMode = FALSE
  /\ errors = <<>>
  /\ validation = <<>>
  /\ pc = "service"
  /\ recipes = <<>>
  /\ clock = 1
  /\ deleted = {}
  /\ lastCall = NoCall
  /\ backupLength = 0
  /\ imported = 0
  /\ skipped = 0
  /\ lastImport = <<>>
  /\ importAborted = FALSE
  /\ RetryIdle
  /\ StatsIdle
  /\ CreateIdle
  /\ DraftIdle
  /\ AdminIdle
  /\ EmployeeIdle
  /\ ListIdle
  /\ \E n \in {0, logLimit - 1} :
       /\ handled = [i \in 1..n |-> AppError(Error(<<>>, <<"e", "r", "r", "o">>), i)]
       /\ errorLog = handled
  /\ exposedLog = <<>>
  /\ exposedShared = FALSE
  /\ handleCalls = 0

NextLog ==
  \/ Handle
  \/ GetErrorLog
  \/ CallerMutates
  \/ ClearErrorLog

SpecLog == InitLog /\ [][NextLog]_vars

(***************************************************************************)
(* Properties.                                                             *)
(***************************************************************************)
Range(seq) == {seq[i] : i \in DOMAIN seq}

\* A stored recipe as createRecipe wrote it: updateRecipe has not touched it.
Created(r) == r.createdAt = r.updatedAt

\* A stored recipe rewritten by the edit submission.
Updated(r) == r.updatedAt # r.createdAt

StrictlyBetween0And100(m) == Gt(m, Num(0)) /\ Lt(m, Num(100))

Positive(x) == IsFinite(x) /\ Gt(x, Num(0))

\* C1: every recipe persisted by createRecipe with a margin strictly
\* between 0 and 100 has suggestedPrice = costPerServing /
\* (1 - marginPercentage/100), the margin being a fraction of the price.
C1_MarginOnPrice ==
  \A i \in DOMAIN recipes :
    LET r == recipes[i]
    IN  (Created(r) /\ StrictlyBetween0And100(r.pricing.marginPercentage))
        => r.pricing.suggestedPrice
             = Div(r.costs.costPerServing,
                   Sub(Num(1), Div(r.pricing.marginPercentage, Num(100))))

\* C2: with marginPercentage >= 100 the suggested price is 0, both in a
\* recipe persisted by createRecipe and in the form's
\* calculateSuggestedPrice.
C2_ZeroFrom100 ==
  /\ \A i \in DOMAIN recipes :
       (Created(recipes[i]) /\ Ge(recipes[i].pricing.marginPercentage, Num(100)))
       => recipes[i].pricing.suggestedPrice = Num(0)
  /\ Ge(formData.marginPercentage, Num(100))
     => calculateSuggestedPrice(formData) = Num(0)

\* The rules of the validator, as the specification states them: the set of
\* rules the data violates, one element per rule (and per ingredient).
NotPositive(x) == ~Gt(x, Num(0))

ViolatedRules(data) ==
  (IF Trim(data.title) = <<>> THEN {Err("title", 0)} ELSE {})
  \cup (IF Trim(data.category) = <<>> THEN {Err("category", 0)} ELSE {})
  \cup (IF NotPositive(data.servings) THEN {Err("servings", 0)} ELSE {})
  \cup (IF data.ingredients = <<>> THEN {Err("noIngredients", 0)} ELSE {})
  \cup {Err("ingredientName", p) :
          p \in {q \in DOMAIN data.ingredients :
                   Trim(data.ingredients[q].name) = <<>>}}
  \cup {Err("ingredientQuantity", p) :
          p \in {q \in DOMAIN data.ingredients :
                   NotPositive(data.ingredients[q].quantity)}}
  \cup {Err("ingredientCost", p) :
          p \in {q \in DOMAIN data.ingredients :
                   NotPositive(data.ingredients[q].costPerUnit)}}
  \cup (IF StrictlyBetween0And100(data.marginPercentage) THEN {}
        ELSE {Err("margin", 0)})

Validated == validation # <<>>

\* C3: validateRecipeData returns exactly one error per violated rule: as
\* many errors as violated rules, and no error twice.
C3_OneErrorPerViolatedRule ==
  Validated =>
    LET errs == validation[1].errors
    IN  /\ Len(errs) = Cardinality(ViolatedRules(formData))
        /\ \A i, j \in DOMAIN errs : errs[i] = errs[j] => i = j

C3_Witness ==
  /\ Validated
  /\ Len(validation[1].errors) >= 5
  /\ Len(formData.ingredients) = MaxIngredients

\* C4: isValid is true exactly when the errors list is empty; data that
\* violates no rule is valid, data with an empty title or an empty
\* ingredient list is invalid.
C4_ValidIffNoErrors ==
  Validated =>
    /\ validation[1].isValid <=> validation[1].errors = <<>>
    /\ ViolatedRules(formData) = {} => validation[1].isValid
    /\ (formData.title = <<>> \/ formData.ingredients = <<>>)
       => ~validation[1].isValid

C4_Witness ==
  /\ Validated
  /\ formData.title = <<>>
  /\ formData.ingredients = <<>>
  /\ ~validation[1].isValid
  /\ validation[1].errors # <<>>

\* C5: the margin error is reported exactly when marginPercentage is
\* missing, <= 0 or >= 100; a margin strictly between 0 and 100 gives none.
C5_MarginErrorIffOutOfRange ==
  Validated =>
    LET m == formData.marginPercentage
        reported == Err("margin", 0) \in Range(validation[1].errors)
    IN  /\ reported <=> (m = Undefined \/ Le(m, Num(0)) \/ Ge(m, Num(100)))
        /\ StrictlyBetween0And100(m) => ~reported

C5_Witness ==
  /\ Validated
  /\ formData.marginPercentage = Rat(9999, 100)
  /\ Err("margin", 0) \notin Range(validation[1].errors)
  /\ validation[1].errors # <<>>

\* C6: the ingredient at 0-based position i gets a name error iff its name
\* is empty after trimming, a quantity error iff quantity is not > 0 and a
\* cost error iff costPerUnit is not > 0, each carrying the index i + 1;
\* no ingredient error carries any other index.
C6_IngredientErrors ==
  Validated =>
    LET errs == Range(validation[1].errors)
        ings == formData.ingredients
    IN  /\ \A i \in 0..(Len(ings) - 1) :
             /\ Err("ingredientName", i + 1) \in errs
                <=> Trim(ings[i + 1].name) = <<>>
             /\ Err("ingredientQuantity", i + 1) \in errs
                <=> NotPositive(ings[i + 1].quantity)
             /\ Err("ingredientCost", i + 1) \in errs
                <=> NotPositive(ings[i + 1].costPerUnit)
        /\ \A e \in errs :
             e.rule \in {"ingredientName", "ingredientQuantity", "ingredientCost"}
             => e.index \in 1..Len(ings)

C6_Witness ==
  /\ Validated
  /\ Len(formData.ingredients) = 2
  /\ Err("ingredientName", 2) \in Range(validation[1].errors)
  /\ Err("ingredientCost", 2) \in Range(validation[1].errors)
  /\ \A e \in Range(validation[1].errors) : e.index # 1

\* The position of an error in the documented order: title, category,
\* servings, ingredient-list presence, the ingredients in list order (name,
\* quantity, cost), margin.
Rank(e, ingredientCount) ==
  CASE e.rule = "title" -> 1
    [] e.rule = "category" -> 2
    [] e.rule = "servings" -> 3
    [] e.rule = "noIngredients" -> 4
    [] e.rule = "ingredientName" -> 3 * e.index + 2
    [] e.rule = "ingredientQuantity" -> 3 * e.index + 3
    [] e.rule = "ingredientCost" -> 3 * e.index + 4
    [] e.rule = "margin" -> 3 * ingredientCount + 5

\* C7: the errors are listed in the documented order, whatever the set of
\* violated rules.
C7_ErrorOrder ==
  Validated =>
    LET errs == validation[1].errors
        n == Len(formData.ingredients)
    IN  \A i, j \in DOMAIN errs : i < j => Rank(errs[i], n) < Rank(errs[j], n)

C7_Witness ==
  /\ Validated
  /\ {Err("title", 0), Err("servings", 0), Err("ingredientQuantity", 1),
      Err("ingredientName", 2), Err("margin", 0)}
       \subseteq Range(validation[1].errors)

\* The sum over the ingredients of quantity x costPerUnit.
RECURSIVE SumOfIngredients(_)
SumOfIngredients(ingredients) ==
  IF ingredients = <<>> THEN Num(0)
  ELSE Add(Mul(Head(ingredients).quantity, Head(ingredients).costPerUnit),
           SumOfIngredients(Tail(ingredients)))

\* C8: every stored cost breakdown, written by createRecipe or by the edit
\* submission, has totalCost = totalIngredientsCost + laborCost +
\* overheadCost, with totalIngredientsCost the sum of quantity x costPerUnit.
C8_CostAdditivity ==
  \A i \in DOMAIN recipes :
    LET r == recipes[i]
    IN  /\ r.costs.totalCost
             = Add(r.costs.totalIngredientsCost,
                   Add(r.costs.laborCost, r.costs.overheadCost))
        /\ r.costs.totalIngredientsCost = SumOfIngredients(r.ingredients)

C8_Witness ==
  \E i \in DOMAIN recipes :
    /\ Updated(recipes[i])
    /\ Len(recipes[i].ingredients) = 2
    /\ Positive(recipes[i].costs.totalIngredientsCost)
    /\ Positive(recipes[i].costs.laborCost)
    /\ Positive(recipes[i].costs.overheadCost)

\* C9: every recipe persisted by createRecipe has costPerServing =
\* totalCost / max(servings, 1).
C9_CostPerServingGuarded ==
  \A i \in DOMAIN recipes :
    Created(recipes[i])
    => recipes[i].costs.costPerServing
         = Div(recipes[i].costs.totalCost, MathMax(recipes[i].servings, Num(1)))

\* C10: every recipe persisted by createRecipe has finite costPerServing,
\* suggestedPrice, profit and profitMargin.
C10_EngineValuesFinite ==
  \A i \in DOMAIN recipes :
    Created(recipes[i])
    => /\ IsFinite(recipes[i].costs.costPerServing)
       /\ IsFinite(recipes[i].pricing.suggestedPrice)
       /\ IsFinite(recipes[i].pricing.profit)
       /\ IsFinite(recipes[i].pricing.profitMargin)

\* A stored recipe that createRecipe wrote from the form data of this run
\* (the recipe present before the run carries timestamp 0).
CreatedFromFormData(r) == Created(r) /\ r.createdAt >= 1

ValueOrDefault(x, default) == IF x = Undefined THEN default ELSE x

\* C11: in a recipe persisted by createRecipe the defaults 15 (labor cost
\* per hour) and 10 (overhead percentage) stand in only for an absent
\* field; a supplied value, 0 included, is used as given.
C11_DefaultsOnlyWhenAbsent ==
  \A i \in DOMAIN recipes :
    LET r == recipes[i]
        hours == Div(Add(formData.prepTime, formData.cookTime), Num(60))
    IN  CreatedFromFormData(r)
        => /\ r.costs.laborCost
                = Mul(hours, ValueOrDefault(formData.laborCostPerHour, Num(15)))
           /\ r.costs.overheadCost
                = Mul(r.costs.totalIngredientsCost,
                      Div(ValueOrDefault(formData.overheadPercentage, Num(10)),
                          Num(100)))

\* C12: in a recipe persisted by createRecipe with a supplied overhead
\* percentage, overheadCost is the ingredient cost times that percentage
\* over 100, whatever prepTime, cookTime and laborCostPerHour are.
C12_OverheadOnIngredientsOnly ==
  \A i \in DOMAIN recipes :
    (CreatedFromFormData(recipes[i]) /\ formData.overheadPercentage # Undefined)
    => recipes[i].costs.overheadCost
         = Div(Mul(SumOfIngredients(formData.ingredients),
                   formData.overheadPercentage), Num(100))

\* C13: a recipe persisted by createRecipe with a margin m strictly between
\* 0 and 100 and a positive cost per serving has profitMargin > m.
C13_ProfitMarginAboveMargin ==
  \A i \in DOMAIN recipes :
    LET r == recipes[i]
    IN  (Created(r) /\ StrictlyBetween0And100(r.pricing.marginPercentage)
           /\ Positive(r.costs.costPerServing))
        => Gt(r.pricing.profitMargin, r.pricing.marginPercentage)

\* C14: the costs and pricing written by the edit submission equal, field
\* by field, those createRecipe persists for the same form data.
C14_EditEqualsCreate ==
  \A i \in DOMAIN recipes :
    Updated(recipes[i])
    => /\ recipes[i].costs = calculateRecipeCosts(formData)
       /\ recipes[i].pricing
            = calculateRecipePricing(calculateRecipeCosts(formData),
                                     formData.marginPercentage)

\* The costs and pricing of document r are computed, both, from the inputs
\* held in data: the ingredient cost, the cost per serving and the price
\* derive from data's ingredients, servings and margin, and the profit is
\* the price less that cost per serving.
RecomputedTogether(r, data) ==
  LET cps == r.costs.costPerServing
      m == data.marginPercentage
  IN  /\ r.ingredients = data.ingredients
      /\ r.servings = data.servings
      /\ r.prepTime = data.prepTime /\ r.cookTime = data.cookTime
      /\ r.totalTime = Add(data.prepTime, data.cookTime)
      /\ r.costs.totalIngredientsCost = SumOfIngredients(data.ingredients)
      /\ r.costs.totalCost
           = Add(r.costs.totalIngredientsCost,
                 Add(r.costs.laborCost, r.costs.overheadCost))
      /\ cps = Div(r.costs.totalCost, data.servings)
      /\ r.pricing.marginPercentage = m
      /\ r.pricing.suggestedPrice
           \in {Mul(cps, Add(Num(1), Div(m, Num(100)))),
                Div(cps, Sub(Num(1), Div(m, Num(100))))}
      /\ r.pricing.finalPrice = r.pricing.suggestedPrice
      /\ r.pricing.profit = Sub(r.pricing.finalPrice, cps)

\* C15: every step that adds or changes a stored recipe leaves it with
\* costs and pricing both recomputed from the inputs it writes; no step
\* changes costs without pricing, pricing without costs, or an input
\* without both.
C15_CostsAndPricingTogether ==
  [][\A i \in DOMAIN recipes' :
       (i \notin DOMAIN recipes \/ recipes'[i] # recipes[i])
       => RecomputedTogether(recipes'[i], formData)]_vars

C15_Witness ==
  \E i \in DOMAIN recipes :
    LET before == RecipeDocument(testRecipeData, "u1", 0)
    IN  /\ Updated(recipes[i])
        /\ recipes[i].ingredients # before.ingredients
        /\ recipes[i].servings # before.servings
        /\ recipes[i].costs # before.costs
        /\ recipes[i].pricing # before.pricing

\* C16: a call of getRecipe, getUserRecipes, updateRecipe or deleteRecipe
\* returns only recipes of the signed-in user, changes or deletes only
\* documents of that user, and signed out performs no store access.
C16_ScopedToCurrentUser ==
  [][/\ \A k \in DOMAIN lastCall'.returned :
          lastCall'.returned[k].userId = currentUser
     /\ \A i \in DOMAIN recipes :
          (recipes'[i] # recipes[i] \/ i \in deleted' \ deleted)
          => recipes[i].userId = currentUser
     /\ currentUser = NoUser
        => /\ lastCall'.accesses = {}
           /\ UNCHANGED <<recipes, deleted>>]_vars

\* The fields of a stored recipe the validator rules are about.
ValidatedFields(r) ==
  [title |-> r.title, category |-> r.category, servings |-> r.servings,
   ingredients |-> r.ingredients,
   marginPercentage |-> r.pricing.marginPercentage]

\* C17: every recipe persisted by importRecipes violates no rule of
\* validateRecipeData, and a backup entry that violates one is skipped,
\* not persisted.
C17_ImportRevalidates ==
  /\ \A i \in DOMAIN recipes : ViolatedRules(ValidatedFields(recipes[i])) = {}
  /\ \A k \in DOMAIN lastImport :
       lastImport[k].persisted => ViolatedRules(lastImport[k].entry) = {}

\* A finished invocation that failed with an error classified as network.
NetworkFailure(o) == ~o.ok /\ identifyErrorType(o.value) = "network"

\* A finished invocation that failed with an error of any other class.
OtherFailure(o) == ~o.ok /\ identifyErrorType(o.value) # "network"

RetryDone == retryPc \in {"returned", "thrown"}

\* C18: the operation is invoked again only after a network failure; a
\* failure of any other class is the last invocation: its error is
\* rethrown at once, with no timer started and no further invocation.
C18_RetryOnlyNetworkFailures ==
  /\ \A k \in 1..(invoked - 1) : NetworkFailure(outcomes[k])
  /\ \A k \in DOMAIN outcomes :
       OtherFailure(outcomes[k])
       => /\ k = Len(outcomes)
          /\ invoked = k
          /\ retryPc = "thrown"
          /\ settled = <<outcomes[k].value>>
          /\ timer = NoTimer
          /\ Len(waits) = k - 1

C18_Witness ==
  /\ maxAttempts = defaultMaxAttempts
  /\ Len(outcomes) = 2
  /\ NetworkFailure(outcomes[1])
  /\ OtherFailure(outcomes[2])
  /\ identifyErrorType(outcomes[2].value) = "permission"
  /\ retryPc = "thrown"

\* The bound and the result of withRetry: at most maxAttempts
\* invocations; a success is the last invocation and its value is
\* returned; what is thrown is the error of the last invocation; and
\* after maxAttempts network failures that error is thrown.
RetryBounded ==
  /\ invoked <= maxAttempts
  /\ Len(outcomes) <= invoked
  /\ \A k \in DOMAIN outcomes :
       outcomes[k].ok
       => /\ k = Len(outcomes)
          /\ invoked = k
          /\ retryPc = "returned"
          /\ settled = <<outcomes[k].value>>
  /\ retryPc = "returned" => outcomes # <<>> /\ outcomes[Len(outcomes)].ok
  /\ retryPc = "thrown"
     => /\ outcomes # <<>>
        /\ ~outcomes[Len(outcomes)].ok
        /\ settled = <<outcomes[Len(outcomes)].value>>
  /\ (retryPc # "idle" /\ Len(outcomes) = maxAttempts
        /\ \A k \in DOMAIN outcomes : NetworkFailure(outcomes[k]))
     => (retryPc = "thrown" /\ settled = <<outcomes[maxAttempts].value>>)

\* C19: withRetry invokes the operation at most maxAttempts times and,
\* every invocation terminating, it terminates: with the value of the
\* first success, or with the error of the last invocation.
C19_BoundedAndTerminates ==
  /\ []RetryBounded
  /\ (retryPc \in {"operation", "timer"}) ~> RetryDone

C19_Witness ==
  /\ maxAttempts = defaultMaxAttempts
  /\ Len(outcomes) = 3
  /\ \A k \in DOMAIN outcomes : NetworkFailure(outcomes[k])
  /\ invoked = 3
  /\ retryPc = "thrown"

\* C20: the k-th wait follows the k-th failed attempt, a network failure
\* with k < maxAttempts, and is for k x delayMs; attempt k + 1 is invoked
\* only when the k-th timer has fired, which is not before its delay.
C20_LinearBackoff ==
  /\ \A k \in DOMAIN waits :
       /\ waits[k].delay = k * delayMs
       /\ waits[k].elapsed >= waits[k].delay
       /\ k < maxAttempts
       /\ NetworkFailure(outcomes[k])
  /\ retryPc = "timer"
     => /\ timer.delay = Len(outcomes) * delayMs
        /\ Len(waits) = Len(outcomes) - 1
        /\ invoked = Len(outcomes)
  /\ invoked >= 1 => Len(waits) >= invoked - 1

C20_Witness ==
  /\ delayMs = defaultDelayMs
  /\ Len(waits) = 2
  /\ waits[1].delay = 1000
  /\ waits[2].delay = 2000
  /\ invoked = 3
  /\ retryPc = "operation"

\* The stored recipes the signed-in user owns.
OwnedRecipes == {i \in DOMAIN recipes : Exists(i) /\ recipes[i].userId = currentUser}

\* The sum of values[i] over the ids i >= from, added to sum.
\* The sum of values[i] over the ids i >= from, added to sum.
SumOver(ids, values, from, sum) ==
  FoldSum([i \in DOMAIN values |-> IF i \in ids THEN values[i] ELSE Num(0)],
          from, Len(values), sum)

\* The arithmetic mean of values over the given stored recipes, 0 for none.
MeanOver(ids, values) ==
  IF ids = {} THEN Num(0) ELSE Div(SumOver(ids, values, 1, Num(0)), Num(Cardinality(ids)))

\* C21: the statistics getDashboardStats returns count all the recipes the
\* signed-in user owns, and averageCost and averageMargin are the means of
\* totalCost and profitMargin over all of them.
C21_StatsOverAllOwnedRecipes ==
  \A k \in DOMAIN dashboardStats :
    /\ dashboardStats[k].totalRecipes = Cardinality(OwnedRecipes)
    /\ dashboardStats[k].averageCost = MeanOver(OwnedRecipes, TotalCosts(recipes))
    /\ dashboardStats[k].averageMargin = MeanOver(OwnedRecipes, ProfitMargins(recipes))

\* chosen is a recipe of list whose profit no recipe of the list exceeds,
\* and the first of the list with that profit.
FirstOfMaximalProfit(chosenId, chosenProfit, list) ==
  \E c \in DOMAIN list :
    /\ list[c].id = chosenId
    /\ list[c].pricing.profit = chosenProfit
    /\ \A j \in DOMAIN list : Le(list[j].pricing.profit, chosenProfit)
    /\ \A j \in 1..(c - 1) : list[j].pricing.profit # chosenProfit

\* C22: for a non-empty list the most profitable recipe, of the dashboard
\* and of the hook, has the maximal profit of the list and is the first of
\* the list with that profit.
C22_MostProfitableFirstOfMaximal ==
  /\ \A k \in DOMAIN dashboardStats :
       UserRecipes # <<>>
       => /\ dashboardStats[k].mostProfitableRecipe # <<>>
          /\ FirstOfMaximalProfit(dashboardStats[k].mostProfitableRecipe[1].id,
                                  dashboardStats[k].mostProfitableRecipe[1].profit,
                                  UserRecipes)
  /\ \A k \in DOMAIN recipeStats :
       recipeStats[k].totalRecipes > 0
       => FirstOfMaximalProfit(recipeStats[k].mostProfitable[1].id,
                               recipeStats[k].mostProfitable[1].pricing.profit,
                               UserRecipes)

C22_Witness ==
  /\ dashboardStats # <<>>
  /\ Len(UserRecipes) = 3
  /\ UserRecipes[1].pricing.profit = UserRecipes[3].pricing.profit
  /\ Lt(UserRecipes[1].pricing.profit, Num(0))
  /\ Lt(UserRecipes[2].pricing.profit, UserRecipes[1].pricing.profit)
  /\ dashboardStats[1].mostProfitableRecipe[1].id = UserRecipes[1].id

\* The six kinds, in the order identifyErrorType tests them.
ErrorKinds == <<"authentication", "permission", "network", "firestore", "validation", "unknown">>

MatchesKind(kind, error) ==
  CASE kind = "authentication" -> MatchesAuthentication(error)
    [] kind = "permission" -> MatchesPermission(error)
    [] kind = "network" -> MatchesNetwork(error)
    [] kind = "firestore" -> MatchesFirestore(error)
    [] kind = "validation" -> MatchesValidation(error)
    [] kind = "unknown" -> TRUE

\* The earliest kind, in that order, whose pattern the error matches.
EarliestKind(error) ==
  ErrorKinds[CHOOSE i \in DOMAIN ErrorKinds :
               /\ MatchesKind(ErrorKinds[i], error)
               /\ \A j \in 1..(i - 1) : ~MatchesKind(ErrorKinds[j], error)]

\* C23: every fault an operation throws is classified as the earliest of
\* the six kinds (authentication, permission, network, firestore,
\* validation, unknown) whose pattern it matches, and withRetry goes on to
\* another attempt after a fault only when that kind is network.
C23_EarliestKindDecidesRetry ==
  \A i \in DOMAIN outcomes :
    ~outcomes[i].ok
    => /\ identifyErrorType(outcomes[i].value) = EarliestKind(outcomes[i].value)
       /\ (i < Len(outcomes) \/ retryPc = "timer")
          => EarliestKind(outcomes[i].value) = "network"
       /\ (i = Len(outcomes) /\ retryPc = "thrown" /\ i < maxAttempts)
          => EarliestKind(outcomes[i].value) # "network"

\* A fault with an auth/ code whose message mentions the network has been
\* thrown on the first of three attempts, and withRetry has rethrown it.
C23_Witness ==
  /\ Len(outcomes) = 1
  /\ maxAttempts = 3
  /\ ~outcomes[1].ok
  /\ MatchesAuthentication(outcomes[1].value)
  /\ MatchesNetwork(outcomes[1].value)
  /\ retryPc = "thrown"
  /\ settled = <<outcomes[1].value>>

\* C24: one call of createRecipe adds at most one document, and exactly
\* one, whose id it returns, when it returns; a further attempt is only
\* under way while no document has been added, and a failed updateUserStats
\* leaves the call returning with that one document.
C24_AtMostOneDocumentPerCall ==
  /\ Len(recipes) <= 1
  /\ retryPc = "returned" => /\ Len(recipes) = 1
                             /\ settled = <<[id |-> 1]>>
  /\ (retryPc \in {"operation", "timer"}) => recipes = <<>>
  /\ statsUpdate = "failed" => /\ retryPc = "returned"
                               /\ Len(recipes) = 1
                               /\ invoked = Len(outcomes)

\* createRecipe has returned the id of its one document on the third
\* attempt, after two network failures of addDoc and a failed
\* updateUserStats.
C24_Witness ==
  /\ retryPc = "returned"
  /\ invoked = 3
  /\ statsUpdate = "failed"
  /\ NetworkFailure(outcomes[1])
  /\ NetworkFailure(outcomes[2])
  /\ Len(recipes) = 1

\* C25: in one session of the recipe form the "save draft" actions create
\* at most one draft document; the first one to succeed creates it and
\* records its id, and every other one updates that document.
C25_AtMostOneDraft ==
  /\ Len(drafts) <= 1
  /\ \A i \in DOMAIN draftCalls :
       draftCalls[i].status = "done" => draftCalls[i].draftId = currentDraftId

\* C26: once the effect has run for the rendered user, useHasAdminClaim
\* returns true only if that user is signed in and their own refreshed
\* token, resolved by a call started for them, carries the admin claim.
C26_OnlyCurrentUsersClaim ==
  (effectUser = currentUser /\ useHasAdminClaim)
  => /\ currentUser \in AdminUsers
     /\ \E i \in DOMAIN tokenCalls :
          /\ tokenCalls[i].user = currentUser
          /\ tokenCalls[i].status = "resolved"

\* C27: every stored employee's hourlyRate is monthlySalary / monthlyHours
\* of the same document rounded to 2 decimals, 0 when either is missing or
\* monthlyHours <= 0.
C27_HourlyRateConsistent ==
  \A i \in DOMAIN employees :
    employees[i].hourlyRate =
      calculateEmployeeHourlyRate(employees[i].monthlySalary, employees[i].monthlyHours)

\* C28: the displayed list loses a recipe, and the modal closes on a
\* confirmed deletion, only in the step where deleteRecipe has succeeded
\* for that recipe; a failed deleteRecipe leaves the list and the modal as
\* they were; a cancel arriving while a deletion is in flight changes
\* nothing; and isDeleting is false once the deletion has finished.
C28_DeleteOnlyAfterSuccess ==
  [][/\ (displayed' # displayed /\ lastEvent' # "loaded")
        => /\ lastEvent' = "deleted"
           /\ deleteCall = confirmModal.recipeId
           /\ deleteCall \in deleted'
           /\ displayed' = WithoutRecipe(displayed, deleteCall)
           /\ ~confirmModal'.isOpen
     /\ (confirmModal.isOpen /\ ~confirmModal'.isOpen)
        => \/ lastEvent' = "deleted"
           \/ lastEvent' = "cancel" /\ ~isDeleting
     /\ lastEvent' = "failed"
        => /\ displayed' = displayed
           /\ confirmModal' = confirmModal
     /\ (lastEvent' = "cancel" /\ isDeleting)
        => UNCHANGED <<displayed, confirmModal, isDeleting, deleteCall>>
     /\ lastEvent' \in {"deleted", "failed"} => ~isDeleting'
    ]_vars

\* A cancel has arrived, and was ignored, while the deletion of a second
\* recipe is in flight, after a first one was deleted and removed.
C28_Witness ==
  /\ lastEvent = "cancel"
  /\ isDeleting
  /\ confirmModal.isOpen
  /\ deleted # {}
  /\ Len(displayed) = Len(recipes) - 1

\* The loop of importRecipes has ended.
ImportEnded == importAborted \/ imported + skipped = backupLength

\* C29: when the loop of importRecipes has ended every entry of the file
\* was either imported or skipped, and imported is the number of recipes
\* createRecipe persisted.
C29_EveryEntryCounted ==
  ImportEnded => /\ imported + skipped = backupLength
                 /\ imported = Len(recipes)

\* C30: the error log holds at most 50 entries, which are the most
\* recently handled errors since it was last cleared, in arrival order
\* (empty right after clearErrorLog), whatever a caller does to an array it
\* got from getErrorLog.
C30_LogKeepsLast50 ==
  /\ Len(errorLog) <= 50
  /\ Len(errorLog) = IF Len(handled) < 50 THEN Len(handled) ELSE 50
  /\ \A i \in DOMAIN errorLog :
       errorLog[i] = handled[Len(handled) - Len(errorLog) + i]
  /\ ~exposedShared

\* 52 errors were handled, the log holds the last 50 of them, and a caller
\* has removed an entry from the array getErrorLog gave it.
C30_Witness ==
  /\ Len(handled) = 52
  /\ Len(errorLog) = 50
  /\ errorLog[1] = handled[3]
  /\ errorLog[50] = handled[52]
  /\ Len(exposedLog) = 49
  /\ exposedLog[49] = handled[51]

====
